---------------------------- MODULE Spec2Model ----------------------------
(***************************************************************************)
(* Verification model of bettrbot's settlement core: the lock store        *)
(* (src/src/utils/locks.ts), deposit reconciliation (walletSubscription    *)
(* and the scheduler's pollWalletDeposits), P2P round settlement           *)
(* (src/src/services/settlement.ts) and house-bet settlement.              *)
(*                                                                         *)
(* Each subsystem has its own specification (SpecLock, ...); a             *)
(* specification leaves the variables of the other subsystems at their     *)
(* parked values.                                                          *)
(***************************************************************************)
EXTENDS Integers, Sequences, FiniteSets, TLC

VARIABLES
    now,          \* the wall clock read by Date.now() / new Date(), in ticks
    locks,        \* ResourceLock table: resourceId -> row
    lkPc,         \* position of each withLock call
    lkInst,       \* the process instance (INSTANCE_ID) each call runs in
    lkRes,        \* resourceId argument of each withLock call
    lkExp,        \* expiresAt computed by each call (locks.ts:21)
    lkRet,        \* what each withLock call returned, until its caller has taken it: null, or the value of fn
    lkReapedLive, \* history: resources whose lease was reaped while its creating call was still running
    dead,         \* process instances that have crashed
    gGame,        \* grading: the Game row (status, scores, winner, lines)
    gBet,         \* grading: the HouseBet row, once placed
    gResult,      \* grading: what determineHouseBetResult returned for the bet
    pWagers,      \* payout computation: round.wagers as settleRound receives them
    pBalance,     \* payout computation: result.balance, the live escrow balance
    pWinner,      \* payout computation: the winner argument
    pPc,          \* payout computation: position in settleRound lines 404-495
    pFee,         \* payout computation: fee, once computed
    pPot,         \* payout computation: remainingPot, once computed
    pIdx,         \* payout computation: index of the next wager of the loop
    pPayouts,     \* payout computation: payout computed for each wager, if any
    pSwept,       \* payout computation: what goes to the treasury when nobody won, once decided
    sGame,        \* settlement: the Game row (status, winner) and where the clock is relative to startTime
    sRound,       \* settlement: the Round row (status)
    sWagers,      \* settlement: the round's Wager rows, in query order, with their user's address
    sEscrow,      \* settlement: balance of the round's escrow wallet
    sRecv,        \* settlement: the transfers each wager's user has received from the escrow
    sTreasury,    \* settlement: the transfers the treasury has received from the escrow
    st,           \* settlement: locals of each settleCompletedGames call
    rf,           \* settlement: locals of the refundCancelledGame call
    lkr,          \* settlement: locals of the lockExpiredRounds call
    cl,           \* settlement: locals of the cleanupStaleGames call
    sCount,       \* settlement: how many settlement passes, refund calls and lease lapses there have been
    dRound,       \* deposits: the Round row (status, totalPot)
    dWagers,      \* deposits: the round's Wager rows (amount, txSignature), in query order
    dLedger,      \* deposits: ProcessedTransaction table, a set of rows (id, signature, amount)
    dChain,       \* deposits: the transfers into the escrow wallet, in order; a signature is a position
    dNotify,      \* deposits: account-change notifications not yet handled
    ev,           \* deposits: locals of the processWalletDeposit call
    pl,           \* deposits: locals of each pollWalletDeposits call
    dWrites,      \* deposits, history: wager updates made for each signature
    dDone,        \* deposits, history: the paths that have processed each signature
    hGame,        \* house bets: the Game row (status, scores, winner)
    hBets,        \* house bets: the HouseBet rows of the game, in query order, with their user's address
    hWallet,      \* house bets: balance of each bet's deposit wallet
    hDrawn,       \* house bets, history: total sent from each bet's wallet to each bet's user
    hc,           \* house bets: locals of each settleHouseBets call
    hRuns,        \* house bets, history: the batches (sets of bet ids) of the calls that have returned
    wRounds,      \* wager placement: the status of each Round row of the game and chat, in creation order
    wWagers,      \* wager placement: the Wager table, a set of rows (id, round, user)
    tsel,         \* wager placement: locals of each handleTeamSelection call
    cv,           \* wager placement: locals of the conversational P2P bet
    chat,         \* notifications: whether bot.api.sendMessage gets through ("up") or throws ("down")
    notices       \* notifications, history: the settlement messages attempted, with their outcome

lockVars == <<now, locks, lkPc, lkInst, lkRes, lkExp, lkRet, lkReapedLive, dead>>

gradeVars == <<gGame, gBet, gResult>>

payoutVars == <<pWagers, pBalance, pWinner, pPc, pFee, pPot, pIdx, pPayouts, pSwept>>

settleVars == <<sGame, sRound, sWagers, sEscrow, sRecv, sTreasury, st, rf, lkr, cl, sCount>>

depositVars == <<dRound, dWagers, dLedger, dChain, dNotify, ev, pl, dWrites, dDone>>

houseVars == <<hGame, hBets, hWallet, hDrawn, hc, hRuns>>

wagerVars == <<wRounds, wWagers, tsel, cv>>

notifyVars == <<chat, notices>>

vars == <<lockVars, gradeVars, payoutVars, settleVars, depositVars, houseVars, wagerVars, notifyVars>>

\* What the operations of one subsystem leave alone: the other subsystems' variables.
notLockVars == <<gradeVars, payoutVars, settleVars, depositVars, houseVars, wagerVars, notifyVars>>

notGradeVars == <<lockVars, payoutVars, settleVars, depositVars, houseVars, wagerVars, notifyVars>>

notPayoutVars == <<lockVars, gradeVars, settleVars, depositVars, houseVars, wagerVars, notifyVars>>

\* The settlement operations use the lock table, and nothing else of the lock
\* store's callers; the one that notifies the chat says so itself.
notSettleVars == <<now, lkPc, lkInst, lkRes, lkExp, lkRet, lkReapedLive, dead, gradeVars, payoutVars, depositVars, houseVars, wagerVars, chat>>

\* The deposit paths use the lock table, and nothing else of the lock store's callers.
notDepositVars == <<now, lkPc, lkInst, lkRes, lkExp, lkRet, lkReapedLive, dead, gradeVars, payoutVars, settleVars, houseVars, wagerVars, notifyVars>>

notHouseVars == <<lockVars, gradeVars, payoutVars, settleVars, depositVars, wagerVars, chat>>

\* Wager placement uses the lock table, and nothing else of the lock store's callers.
notWagerVars == <<now, lkPc, lkInst, lkRes, lkExp, lkRet, lkReapedLive, dead, gradeVars, payoutVars, settleVars,
                  depositVars, houseVars, notifyVars>>

-----------------------------------------------------------------------------
(* Shared helpers *)

Max(a, b) == IF a >= b THEN a ELSE b

Min(a, b) == IF a <= b THEN a ELSE b

Restrict(f, S) == [x \in S |-> f[x]]

\* A nullable column or value: null is the empty tuple, a value v is <<v>>.
Null == << >>

Some(v) == <<v>>

IsNull(x) == x = << >>

Val(x) == x[1]

-----------------------------------------------------------------------------
(***************************************************************************)
(* LOCK STORE  (src/src/utils/locks.ts)                                    *)
(*                                                                         *)
(* The store is assumed available: the generic catch of acquireLock        *)
(* (lines 48-49) and of releaseLock (lines 65-67) is not modelled.         *)
(***************************************************************************)

\* Number of withLock calls that can be in flight at once.
NLockCalls == 2

\* Last clock value the model explores.
MaxTime == 3

\* DEFAULT_LOCK_TIMEOUT_MS (60000 ms), in clock ticks of 30 s.
LockTimeout == 2

LockCalls == 1..NLockCalls

\* Process instances; each has its own INSTANCE_ID (locks.ts:8).
Instances == {"A", "B"}

LockResources == {"R1", "R2"}

\* What fn returns: every fn passed to withLock in the sources returns an
\* object, true or undefined, never null.
FnValue == "value"

\* Mutant of SkippedResult: a skipped call returns what a call that ran returns.
SkippedAsRan == Some(FnValue)

\* withLock lines 81-83: `if (!acquired) return null;`
SkippedResult == Null

\* The ResourceLock table is a set of rows. `call` identifies the insert that
\* created the row (the row's id column).
LockRow(c) == [lockedBy |-> lkInst[c], expiresAt |-> lkExp[c], call |-> c]

\* Mutant of ReapExpired: the comparison is turned around (gt instead of lt).
ReapExpiredWrongSide(table, t) == {row \in table : ~(row.expiresAt > t)}

\* prisma.resourceLock.deleteMany({ where: { expiresAt: { lt: new Date() } } })
ReapExpired(table, t) == {row \in table : ~(row.expiresAt < t)}

\* prisma.resourceLock.deleteMany({ where: { resourceId, lockedBy: INSTANCE_ID } })
DeleteOwned(table, r, inst) == {row \in table : ~(row.resourceId = r /\ row.lockedBy = inst)}

\* Mutant of CreateConflicts: the table has no unique index on resourceId.
CreateNeverConflicts(table, r) == FALSE

\* Unique constraint on resourceId: create throws P2002 when a row for r exists.
CreateConflicts(table, r) == \E row \in table : row.resourceId = r

\* The resources that have a row in the table.
Locked(table) == {row.resourceId : row \in table}

\* prisma.resourceLock.create({ data: { resourceId, lockedBy, expiresAt } }), once the unique index let it through.
InsertLease(table, r, row) ==
    table \cup {[resourceId |-> r, lockedBy |-> row.lockedBy, expiresAt |-> row.expiresAt, call |-> row.call]}

\* The calls that are between a successful acquire and the end of their release.
Running(c) == lkPc[c] \in {"body", "release"}

\* withLock entry, acquireLock line 21: expiresAt = Date.now() + timeoutMs.
LockStart(c, i, r) ==
    /\ lkPc[c] = "idle"
    /\ i \notin dead
    /\ lkPc' = [lkPc EXCEPT ![c] = "reap"]
    /\ lkInst' = [lkInst EXCEPT ![c] = i]
    /\ lkRes' = [lkRes EXCEPT ![c] = r]
    /\ lkExp' = [lkExp EXCEPT ![c] = now + LockTimeout]
    /\ UNCHANGED <<now, locks, lkRet, lkReapedLive, dead>>
    /\ UNCHANGED notLockVars

\* acquireLock lines 25-29: lazily reap every expired lease.
LockReap(c) ==
    /\ lkPc[c] = "reap"
    /\ lkInst[c] \notin dead
    /\ locks' = ReapExpired(locks, now)
    /\ lkReapedLive' = lkReapedLive \cup
            {row.resourceId : row \in {x \in locks \ locks' : Running(x.call) /\ lkInst[x.call] \notin dead}}
    /\ lkPc' = [lkPc EXCEPT ![c] = "create"]
    /\ UNCHANGED <<now, lkInst, lkRes, lkExp, lkRet, dead>>
    /\ UNCHANGED notLockVars

\* acquireLock lines 32-47 and withLock lines 80-83: insert the lease, or
\* return false on the unique-constraint violation, in which case withLock
\* returns null without running fn.
LockCreate(c) ==
    /\ lkPc[c] = "create"
    /\ lkInst[c] \notin dead
    /\ IF CreateConflicts(locks, lkRes[c])
          THEN /\ lkPc' = [lkPc EXCEPT ![c] = "returned"]
               /\ lkRet' = [lkRet EXCEPT ![c] = SkippedResult]
               /\ lkInst' = [lkInst EXCEPT ![c] = "A"]
               /\ lkRes' = [lkRes EXCEPT ![c] = "R1"]
               /\ lkExp' = [lkExp EXCEPT ![c] = 0]
               /\ UNCHANGED locks
          ELSE /\ locks' = InsertLease(locks, lkRes[c], LockRow(c))
               /\ lkPc' = [lkPc EXCEPT ![c] = "body"]
               /\ UNCHANGED <<lkInst, lkRes, lkExp, lkRet>>
    /\ UNCHANGED <<now, lkReapedLive, dead>>
    /\ UNCHANGED notLockVars

\* withLock lines 85-88: fn returns or throws; either way control reaches finally.
LockBodyEnd(c) ==
    /\ lkPc[c] = "body"
    /\ lkInst[c] \notin dead
    /\ lkPc' = [lkPc EXCEPT ![c] = "release"]
    /\ UNCHANGED <<now, locks, lkInst, lkRes, lkExp, lkRet, lkReapedLive, dead>>
    /\ UNCHANGED notLockVars

\* releaseLock lines 56-68, called from withLock's finally; withLock then
\* returns what fn returned (line 86).
LockRelease(c) ==
    /\ lkPc[c] = "release"
    /\ lkInst[c] \notin dead
    /\ locks' = DeleteOwned(locks, lkRes[c], lkInst[c])
    /\ lkPc' = [lkPc EXCEPT ![c] = "returned"]
    /\ lkRet' = [lkRet EXCEPT ![c] = Some(FnValue)]
    /\ lkInst' = [lkInst EXCEPT ![c] = "A"]
    /\ lkRes' = [lkRes EXCEPT ![c] = "R1"]
    /\ lkExp' = [lkExp EXCEPT ![c] = 0]
    /\ UNCHANGED <<now, lkReapedLive, dead>>
    /\ UNCHANGED notLockVars

\* The caller takes what withLock returned (`result === null`, for example
\* settlement.ts:336, houseBet.ts:947, part_003:159) and the call is over.
LockReturn(c) ==
    /\ lkPc[c] = "returned"
    /\ lkPc' = [lkPc EXCEPT ![c] = "idle"]
    /\ lkRet' = [lkRet EXCEPT ![c] = Null]
    /\ UNCHANGED <<now, locks, lkInst, lkRes, lkExp, lkReapedLive, dead>>
    /\ UNCHANGED notLockVars

\* A process instance crashes: its calls stop where they are and its leases stay in the store.
LockCrash(i) ==
    /\ i \notin dead
    /\ \E c \in LockCalls : lkInst[c] = i /\ Running(c)
    /\ dead' = dead \cup {i}
    /\ UNCHANGED <<now, locks, lkPc, lkInst, lkRes, lkExp, lkRet, lkReapedLive>>
    /\ UNCHANGED notLockVars

\* An idle call slot holds no arguments: lkInst, lkRes and lkExp are reset
\* when a call returns, so that a slot's past does not distinguish states.
\* Time passes.
Tick ==
    /\ now < MaxTime
    /\ now' = now + 1
    /\ UNCHANGED <<locks, lkPc, lkInst, lkRes, lkExp, lkRet, lkReapedLive, dead>>
    /\ UNCHANGED notLockVars

\* The chat is reachable and no settlement message has been attempted.
NotifyInit ==
    /\ chat = "up"
    /\ notices = {}

\* Telegram becomes unreachable for the bot, or reachable again.
ChatChange ==
    /\ chat' = IF chat = "up" THEN "down" ELSE "up"
    /\ UNCHANGED <<notices, lockVars, gradeVars, payoutVars, settleVars, depositVars, houseVars, wagerVars>>

LockStoreInit ==
    /\ now = 0
    /\ locks = {}
    /\ lkPc = [c \in LockCalls |-> "idle"]
    /\ lkInst = [c \in LockCalls |-> "A"]
    /\ lkRes = [c \in LockCalls |-> "R1"]
    /\ lkExp = [c \in LockCalls |-> 0]
    /\ lkRet = [c \in LockCalls |-> Null]
    /\ lkReapedLive = {}
    /\ dead = {}

NextLock ==
    \/ \E c \in LockCalls, i \in Instances, r \in LockResources : LockStart(c, i, r)
    \/ \E c \in LockCalls : LockReap(c)
    \/ \E c \in LockCalls : LockCreate(c)
    \/ \E c \in LockCalls : LockBodyEnd(c)
    \/ \E c \in LockCalls : LockRelease(c)
    \/ \E c \in LockCalls : LockReturn(c)
    \/ \E i \in Instances : LockCrash(i)
    \/ Tick

-----------------------------------------------------------------------------
(***************************************************************************)
(* HOUSE-BET GRADING  (src/unnamed/part_006: createHouseBet,               *)
(* determineHouseBetResult)                                                *)
(*                                                                         *)
(* Lines are multiples of one half (-3.5, 220.5, ...); the model holds a   *)
(* line as the integer number of half points and compares doubled scores,  *)
(* which is exact for the floating-point comparison of the code.           *)
(***************************************************************************)

\* Largest small final score of one team the model enumerates.
MaxScore == 3

\* Final scores: the small scores, and the scores of the documented scenario (110-108).
GradeScores == (0..MaxScore) \cup {108, 110}

\* Spread lines of the home team, in half points (-3.5, -2, -1.5, 0, 1.5, 2, 3.5).
GradeSpreads2 == {-7, -4, -3, 0, 3, 4, 7}

\* Total lines, in half points (1.5, 2, 3.5).
GradeTotals2 == {3, 4, 7}

BetTypes == {"MONEYLINE", "SPREAD", "TOTAL_OVER", "TOTAL_UNDER"}

\* The picks the bot offers for a bet type.
PicksOf(betType) == IF betType \in {"MONEYLINE", "SPREAD"} THEN {"home", "away"}
                    ELSE IF betType = "TOTAL_OVER" THEN {"over"} ELSE {"under"}

\* createHouseBet lines 259-279: the line stored on the bet.
BetLine(game, betType, pick) ==
    CASE betType = "MONEYLINE" -> Null
      [] betType = "SPREAD" -> IF pick = "home" THEN game.homeSpread ELSE game.awaySpread
      [] OTHER -> game.totalLine

\* The winner column as the result feed sets it (admin.ts:586).
WinnerOf(hs, as) ==
    IF IsNull(hs) \/ IsNull(as) THEN Null
    ELSE IF Val(hs) > Val(as) THEN Some("home")
    ELSE IF Val(hs) < Val(as) THEN Some("away") ELSE Null

\* Mutant of determineHouseBetResult: a total that meets the line is not a
\* PUSH but goes to the bettor, and a bet without a line is graded a LOSS.
GradeWithoutPush(bet, game) ==
    IF IsNull(game.homeScore) \/ IsNull(game.awayScore) THEN "NONE"
    ELSE LET homeScore == 2 * Val(game.homeScore)
             awayScore == 2 * Val(game.awayScore)
         IN CASE bet.betType = "MONEYLINE" ->
                    IF game.winner = Some(bet.pick) THEN "WIN" ELSE "LOSS"
              [] bet.betType = "TOTAL_OVER" ->
                    IF IsNull(bet.line) THEN "LOSS"
                    ELSE IF homeScore + awayScore >= Val(bet.line) THEN "WIN" ELSE "LOSS"
              [] bet.betType = "TOTAL_UNDER" ->
                    IF IsNull(bet.line) THEN "LOSS"
                    ELSE IF homeScore + awayScore <= Val(bet.line) THEN "WIN" ELSE "LOSS"
              [] OTHER -> "NONE"

\* determineHouseBetResult lines 616-684. Scores are doubled, lines are in half points.
determineHouseBetResult(bet, game) ==
    IF IsNull(game.homeScore) \/ IsNull(game.awayScore) THEN "NONE"
    ELSE LET homeScore == 2 * Val(game.homeScore)
             awayScore == 2 * Val(game.awayScore)
         IN CASE bet.betType = "MONEYLINE" ->
                    IF game.winner = Some(bet.pick) THEN "WIN" ELSE "LOSS"
              [] bet.betType = "SPREAD" ->
                    IF IsNull(bet.line) THEN "NONE"
                    ELSE LET adjustedHomeScore == homeScore + (IF bet.pick = "home" THEN Val(bet.line) ELSE 0)
                             adjustedAwayScore == awayScore + (IF bet.pick = "away" THEN 0 - Val(bet.line) ELSE 0)
                         IN IF bet.pick = "home"
                               THEN IF adjustedHomeScore > awayScore THEN "WIN"
                                    ELSE IF adjustedHomeScore = awayScore THEN "PUSH" ELSE "LOSS"
                               ELSE IF adjustedAwayScore > homeScore THEN "WIN"
                                    ELSE IF adjustedAwayScore = homeScore THEN "PUSH" ELSE "LOSS"
              [] bet.betType = "TOTAL_OVER" ->
                    IF IsNull(bet.line) THEN "NONE"
                    ELSE LET total == homeScore + awayScore
                         IN IF total > Val(bet.line) THEN "WIN"
                            ELSE IF total = Val(bet.line) THEN "PUSH" ELSE "LOSS"
              [] bet.betType = "TOTAL_UNDER" ->
                    IF IsNull(bet.line) THEN "NONE"
                    ELSE LET total == homeScore + awayScore
                         IN IF total < Val(bet.line) THEN "WIN"
                            ELSE IF total = Val(bet.line) THEN "PUSH" ELSE "LOSS"
              [] OTHER -> "NONE"

\* createHouseBet: a bet is placed on a SCHEDULED game at the game's current line.
GradePlaceBet(betType, pick) ==
    /\ IsNull(gBet)
    /\ gGame.status = "SCHEDULED"
    /\ pick \in PicksOf(betType)
    /\ gBet' = Some([betType |-> betType, pick |-> pick, line |-> BetLine(gGame, betType, pick)])
    /\ UNCHANGED <<gGame, gResult>>
    /\ UNCHANGED notGradeVars

\* The result feed marks the game FINAL, with its scores when it has them.
GradeGameFinal(hs, as) ==
    /\ gGame.status = "SCHEDULED"
    /\ ~IsNull(gBet)
    /\ gGame' = [gGame EXCEPT !.status = "FINAL", !.homeScore = hs, !.awayScore = as,
                              !.winner = WinnerOf(hs, as)]
    /\ UNCHANGED <<gBet, gResult>>
    /\ UNCHANGED notGradeVars

\* settleHouseBets line 389: the bet of a FINAL game is graded.
GradeBet ==
    /\ gGame.status = "FINAL"
    /\ ~IsNull(gBet)
    /\ gResult = "UNGRADED"
    /\ gResult' = determineHouseBetResult(Val(gBet), gGame)
    /\ UNCHANGED <<gGame, gBet>>
    /\ UNCHANGED notGradeVars

GradeInit ==
    /\ \E hsp \in {Null} \cup {Some(l) : l \in GradeSpreads2}, tl \in {Null} \cup {Some(l) : l \in GradeTotals2} :
          gGame = [status |-> "SCHEDULED", homeScore |-> Null, awayScore |-> Null, winner |-> Null,
                   homeSpread |-> hsp,
                   awaySpread |-> IF IsNull(hsp) THEN Null ELSE Some(0 - Val(hsp)),
                   totalLine |-> tl]
    /\ gBet = Null
    /\ gResult = "UNGRADED"

ParkGrade ==
    /\ gGame = Null
    /\ gBet = Null
    /\ gResult = "UNGRADED"

NextGrade ==
    \/ \E bt \in BetTypes, pk \in {"home", "away", "over", "under"} : GradePlaceBet(bt, pk)
    \/ \E hs, as \in {Null} \cup {Some(x) : x \in GradeScores} : GradeGameFinal(hs, as)
    \/ GradeBet

-----------------------------------------------------------------------------
(***************************************************************************)
(* PAYOUT COMPUTATION  (src/src/services/settlement.ts, settleRound        *)
(* lines 404-461)                                                          *)
(*                                                                         *)
(* Amounts are lamports (BigInt in the code); BigInt division truncates,   *)
(* which on the non-negative amounts here is \div.                         *)
(***************************************************************************)

\* Math.floor(FEE_PERCENTAGE * 10000) with FEE_PERCENTAGE = 0.01 (settlement.ts:405).
FeeBps == 100

\* The divisor of the fee computation (settlement.ts:405).
BpsDenominator == 10000


\* Largest wager amount of the payout computation, in hundreds.
MaxPayUnits == 2

\* The wagers of the round whose payouts are computed.
PayWagerIds == {1, 2, 3}

\* Wager amounts: an unfunded wager (0), and the amounts of the documented example.
PayAmounts == {0, 150} \cup {100 * k : k \in 1..MaxPayUnits}

\* Live escrow balances: below one fee unit, the documented example, and a surplus.
PayBalances == {99, 450, 1000}

Teams == {"home", "away"}

\* Mutant of Fee: the fee is rounded up instead of down.
FeeRoundedUp(balance) == (balance * FeeBps + BpsDenominator - 1) \div BpsDenominator

\* settlement.ts:405.
Fee(balance) == (balance * FeeBps) \div BpsDenominator

\* settlement.ts:406.
RemainingPot(balance) == balance - Fee(balance)

\* settlement.ts:409: round.wagers.filter((w) => w.teamPick === winner), as indices.
WinningWagers(wagers, winner) == {i \in DOMAIN wagers : wagers[i].teamPick = winner}

RECURSIVE SumAmounts(_, _)
SumAmounts(wagers, S) ==
    IF S = {} THEN 0
    ELSE LET i == CHOOSE x \in S : TRUE
         IN wagers[i].amount + SumAmounts(wagers, S \ {i})

\* settlement.ts:410.
TotalWinningAmount(wagers, winner) == SumAmounts(wagers, WinningWagers(wagers, winner))

\* Mutant of Payout: the share is taken of the whole balance, not of the pot after the fee.
PayoutOfBalance(wagers, i, winner, balance) ==
    (wagers[i].amount * balance) \div TotalWinningAmount(wagers, winner)

\* settlement.ts:455.
Payout(wagers, i, winner, balance) ==
    (wagers[i].amount * RemainingPot(balance)) \div TotalWinningAmount(wagers, winner)

\* settlement.ts:413.
NoWinners(wagers, winner) ==
    WinningWagers(wagers, winner) = {} \/ TotalWinningAmount(wagers, winner) = 0

\* settlement.ts:418-420: what the round without winners sends to the
\* treasury: the balance, if the fee of that balance is positive.
TreasurySweep(balance) == IF Fee(balance) > 0 THEN balance ELSE 0

\* settlement.ts:405-427: fee and remainingPot; with no winning stake there
\* is no payout loop but the transfer to the treasury.
PayoutFee ==
    /\ pPc = "fee"
    /\ pFee' = Some(Fee(pBalance))
    /\ pPot' = Some(RemainingPot(pBalance))
    /\ pPc' = IF NoWinners(pWagers, pWinner) THEN "done" ELSE "loop"
    /\ pSwept' = IF NoWinners(pWagers, pWinner) THEN Some(TreasurySweep(pBalance)) ELSE pSwept
    /\ UNCHANGED <<pWagers, pBalance, pWinner, pIdx, pPayouts>>
    /\ UNCHANGED notPayoutVars

\* settlement.ts:444-461: one wager of round.wagers; a wager that is not a
\* winning wager is not in the loop, a winner without address is skipped
\* before its payout is computed.
PayoutWager ==
    /\ pPc = "loop"
    /\ pIdx \in DOMAIN pWagers
    /\ pPayouts' = IF pWagers[pIdx].teamPick = pWinner /\ pWagers[pIdx].addr
                      THEN [pPayouts EXCEPT ![pIdx] = Some(Payout(pWagers, pIdx, pWinner, pBalance))]
                      ELSE pPayouts
    /\ pIdx' = pIdx + 1
    /\ UNCHANGED <<pWagers, pBalance, pWinner, pPc, pFee, pPot, pSwept>>
    /\ UNCHANGED notPayoutVars

\* The loop has gone through round.wagers.
PayoutDone ==
    /\ pPc = "loop"
    /\ pIdx \notin DOMAIN pWagers
    /\ pPc' = "done"
    /\ UNCHANGED <<pWagers, pBalance, pWinner, pFee, pPot, pIdx, pPayouts, pSwept>>
    /\ UNCHANGED notPayoutVars

PayoutInit ==
    /\ pWagers \in [PayWagerIds -> [teamPick : Teams, amount : PayAmounts, addr : BOOLEAN]]
    /\ pBalance \in PayBalances
    /\ pWinner \in Teams
    /\ pPc = "fee"
    /\ pFee = Null
    /\ pPot = Null
    /\ pIdx = 1
    /\ pPayouts = [i \in PayWagerIds |-> Null]
    /\ pSwept = Null

ParkPayout ==
    /\ pWagers = << >>
    /\ pBalance = 0
    /\ pWinner = "home"
    /\ pPc = "done"
    /\ pFee = Null
    /\ pPot = Null
    /\ pIdx = 1
    /\ pPayouts = << >>
    /\ pSwept = Null

NextPayout ==
    \/ PayoutFee
    \/ PayoutWager
    \/ PayoutDone

-----------------------------------------------------------------------------
(***************************************************************************)
(* ROUND SETTLEMENT, REFUND, LOCKING AND CLEANUP                           *)
(* (src/src/services/settlement.ts lines 283-644,                          *)
(*  src/src/services/houseBet.ts lines 953-998 and 1080-1134)              *)
(*                                                                         *)
(* One game with one round and its wagers.  Amounts are counted in units   *)
(* of 1000 lamports, so that the products of the BigInt arithmetic stay    *)
(* within the model checker's integers: the minimum bet of 10^7 lamports   *)
(* is 10000 units and the transfer cost of 5000 lamports is 5 units.       *)
(*                                                                         *)
(* sendSol and getWalletBalance (wallet.ts) move and read the escrow       *)
(* balance; a send either succeeds, debiting the escrow by the amount, or  *)
(* throws.  A send of more than the balance throws.  The database is       *)
(* assumed available.  Chat notifications are not modelled.                *)
(***************************************************************************)

\* The cost of one transfer, BigInt(5000) lamports (settlement.ts:430, 457, 615), in units.
TxCost == 5

\* Lamports in one unit of the settlement section.
LamportsPerUnit == 1000

\* MIN_BET_LAMPORTS (constants.ts:12), in units.
MinBet == 10000

\* Largest wager amount, in minimum bets.
MaxBetUnits == 1

\* Settlement passes that get to a round, refund calls and lease lapses the model explores.
MaxPasses == 2

MaxRefunds == 1

MaxLapses == 1

\* An escrow balance too small for any payout to cover the transfer cost.
DustBalance == 8

\* Concurrent settleCompletedGames calls: one per process instance.
Settlers == {"s1", "s2"}

\* The process instance a call runs in; refundCancelledGame runs in instance A.
InstanceOf(p) == IF p = "s2" THEN "B" ELSE "A"

\* withLock('scheduler:settlement', ...) (settlement.ts:296).
SchedulerLock == "scheduler:settlement"

\* withLock(`round:settle:${round.id}`, ...) (settlement.ts:364, 586) of the one round.
RoundLock == "round:settle"

SettleAmounts == {0} \cup {MinBet * k : k \in 1..MaxBetUnits}

\* Lease of the scheduler lock, 300000 ms (settlement.ts:334), in clock ticks of 30 s.
SettlementLockTimeout == 10

\* Lease of the round lock, 120000 ms (settlement.ts:391, 600), in clock ticks of 30 s.
RoundLockTimeout == 4

\* The ResourceLock row acquireLock inserts for caller `who` of instance inst.
Lease(inst, who, timeout) == [lockedBy |-> inst, expiresAt |-> now + timeout, call |-> who]

\* acquireLock (locks.ts:17-51) as one step: reap, then insert unless a row exists.
CanAcquire(table, r) == ~CreateConflicts(ReapExpired(table, now), r)

Acquire(table, r, inst, who, timeout) == InsertLease(ReapExpired(table, now), r, Lease(inst, who, timeout))

\* sendSol: the outcomes of sending `amount` from an escrow holding `balance`.
SendOutcomes(balance, amount) == IF amount <= balance THEN {TRUE, FALSE} ELSE {FALSE}

\* Mutant of SettleSkips: the status re-check under the round lock is dropped.
SettleNeverSkips(status) == FALSE

\* settlement.ts:371: the re-check under the round lock.
SettleSkips(status) == status # "LOCKED"

\* settlement.ts:594.
RefundSkips(status) == status \in {"SETTLED", "CANCELLED"}

\* tried: the wagers sendSol was called for in this pass.
IdleSettler == [pc |-> "idle", winner |-> "home", skipped |-> FALSE, bal |-> 0, idx |-> 1, ok |-> TRUE, tried |-> {}]

IdleRefunder == [pc |-> "idle", paid |-> << >>, skipped |-> FALSE, idx |-> 1]

\* settleCompletedGames lines 296-322: take the scheduler lock and query the
\* FINAL games with a winner and their LOCKED rounds.  A call that does not
\* get the lock (result === null), or whose query finds nothing, changes
\* nothing.  The calls being alike, s2 is the one that starts while s1 is at work.
SettleStart(p) ==
    /\ st[p].pc = "idle"
    /\ p = "s2" => st["s1"].pc # "idle"
    /\ CanAcquire(locks, SchedulerLock)
    /\ sGame.status = "FINAL" /\ ~IsNull(sGame.winner) /\ sRound.status = "LOCKED"
    /\ locks' = Acquire(locks, SchedulerLock, InstanceOf(p), p, SettlementLockTimeout)
    /\ st' = [st EXCEPT ![p].pc = "round", ![p].winner = Val(sGame.winner)]
    /\ sCount.passes < MaxPasses
    /\ sCount' = [sCount EXCEPT !.passes = @ + 1]
    /\ UNCHANGED <<sGame, sRound, sWagers, sEscrow, sRecv, sTreasury, rf, lkr, cl>>
    /\ UNCHANGED <<notices, notSettleVars>>

\* The same call made by the cron job every five minutes
\* (scheduler.ts:238-242), as often as the job fires; the count of passes
\* stops at MaxPasses.
SettleAgain(p) ==
    /\ st[p].pc = "idle"
    /\ p = "s2" => st["s1"].pc # "idle"
    /\ CanAcquire(locks, SchedulerLock)
    /\ sGame.status = "FINAL" /\ ~IsNull(sGame.winner) /\ sRound.status = "LOCKED"
    /\ locks' = Acquire(locks, SchedulerLock, InstanceOf(p), p, SettlementLockTimeout)
    /\ st' = [st EXCEPT ![p].pc = "round", ![p].winner = Val(sGame.winner)]
    /\ sCount' = [sCount EXCEPT !.passes = Min(@ + 1, MaxPasses)]
    /\ UNCHANGED <<sGame, sRound, sWagers, sEscrow, sRecv, sTreasury, rf, lkr, cl>>
    /\ UNCHANGED <<notices, notSettleVars>>

\* settleRound lines 364-390: take the round lock, or return (lines 393-396)
\* and with it leave settleCompletedGames; under the lock re-read the round's
\* status, read the live balance, and settle the round of an empty wallet.
SettleLocked(p) ==
    /\ st[p].pc = "round"
    /\ IF ~CanAcquire(locks, RoundLock)
          THEN /\ locks' = DeleteOwned(locks, SchedulerLock, InstanceOf(p))
               /\ st' = [st EXCEPT ![p] = IdleSettler]
               /\ UNCHANGED sRound
          ELSE /\ locks' = Acquire(locks, RoundLock, InstanceOf(p), p, RoundLockTimeout)
               /\ IF SettleSkips(sRound.status)
                     THEN /\ st' = [st EXCEPT ![p].pc = "unlock", ![p].skipped = TRUE]
                          /\ UNCHANGED sRound
                     ELSE IF sEscrow = 0
                             THEN /\ sRound' = [sRound EXCEPT !.status = "SETTLED"]
                                  /\ st' = [st EXCEPT ![p].pc = "unlock", ![p].skipped = TRUE]
                             ELSE /\ st' = [st EXCEPT ![p].pc = "unlock", ![p].bal = sEscrow]
                                  /\ UNCHANGED sRound
    /\ UNCHANGED <<sGame, sWagers, sEscrow, sRecv, sTreasury, rf, lkr, cl, sCount>>
    /\ UNCHANGED <<notices, notSettleVars>>

\* The locks settleCompletedGames gives up when it returns (withLock's finally, locks.ts:87).
Released(table, p) == DeleteOwned(table, SchedulerLock, InstanceOf(p))

\* withLock's finally for the round lock, then settleRound lines 398-400: a
\* skipped round ends the call.
SettleUnlock(p) ==
    /\ st[p].pc = "unlock"
    /\ IF st[p].skipped
          THEN /\ locks' = Released(DeleteOwned(locks, RoundLock, InstanceOf(p)), p)
               /\ st' = [st EXCEPT ![p] = IdleSettler]
          ELSE /\ locks' = DeleteOwned(locks, RoundLock, InstanceOf(p))
               /\ st' = [st EXCEPT ![p].pc = "compute"]
    /\ UNCHANGED <<sGame, sRound, sWagers, sEscrow, sRecv, sTreasury, rf, lkr, cl, sCount>>
    /\ UNCHANGED <<notices, notSettleVars>>

\* A transfer as the recipient sees it.
Transfer(kind, amount) == [kind |-> kind, amount |-> amount]

\* settleRound lines 404-438: fee and pot; without winning stake the whole
\* balance goes to the treasury (a throw of that send leaves settleRound,
\* line 328 catches it); otherwise the fee is sent if it covers the transfer
\* cost, and a failure of that send is only logged.
SettleCompute(p) ==
    /\ st[p].pc = "compute"
    /\ LET bal == st[p].bal
           fee == Fee(bal)
       IN IF NoWinners(sWagers, st[p].winner)
             THEN IF TreasurySweep(bal * LamportsPerUnit) > 0
                     THEN \E sent \in SendOutcomes(sEscrow, bal) :
                             IF sent
                                THEN /\ sEscrow' = sEscrow - bal
                                     /\ sTreasury' = Append(sTreasury, Transfer("pot", bal))
                                     /\ st' = [st EXCEPT ![p].pc = "nowinners"]
                                     /\ UNCHANGED locks
                                ELSE /\ st' = [st EXCEPT ![p] = IdleSettler]
                                     /\ locks' = Released(locks, p)
                                     /\ UNCHANGED <<sEscrow, sTreasury>>
                     ELSE /\ st' = [st EXCEPT ![p].pc = "nowinners"]
                          /\ UNCHANGED <<locks, sEscrow, sTreasury>>
             ELSE IF fee > TxCost
                     THEN \E sent \in SendOutcomes(sEscrow, fee) :
                             /\ sEscrow' = IF sent THEN sEscrow - fee ELSE sEscrow
                             /\ sTreasury' = IF sent THEN Append(sTreasury, Transfer("fee", fee)) ELSE sTreasury
                             /\ st' = [st EXCEPT ![p].pc = "loop", ![p].idx = 1, ![p].ok = TRUE]
                             /\ UNCHANGED locks
                     ELSE /\ st' = [st EXCEPT ![p].pc = "loop", ![p].idx = 1, ![p].ok = TRUE]
                          /\ UNCHANGED <<locks, sEscrow, sTreasury>>
    /\ UNCHANGED <<sGame, sRound, sWagers, sRecv, rf, lkr, cl, sCount>>
    /\ UNCHANGED <<notices, notSettleVars>>

\* settleRound lines 422-426: the round without winners is marked SETTLED; the call returns.
SettleNoWinners(p) ==
    /\ st[p].pc = "nowinners"
    /\ sRound' = [sRound EXCEPT !.status = "SETTLED"]
    /\ locks' = Released(locks, p)
    /\ st' = [st EXCEPT ![p] = IdleSettler]
    /\ UNCHANGED <<sGame, sWagers, sEscrow, sRecv, sTreasury, rf, lkr, cl, sCount>>
    /\ UNCHANGED <<notices, notSettleVars>>

\* Mutant of AfterPayoutFailure: the throw leaves the loop.
AbortedLoop(i) == Len(sWagers) + 1

\* settleRound lines 490-493: the catch notes the failure, and the loop goes
\* on with the next wager.
AfterPayoutFailure(i) == i + 1

\* settleRound lines 444-495, one wager of the snapshot: a wager that is not
\* a winning wager is not in the loop; a winner without address or with a
\* payout that does not cover the transfer cost is skipped; otherwise the
\* payout is sent and the wager marked paidOut, or the failure is noted.
SettlePayout(p) ==
    /\ st[p].pc = "loop"
    /\ st[p].idx \in DOMAIN sWagers
    /\ LET i == st[p].idx
           w == sWagers[i]
           payout == Payout(sWagers, i, st[p].winner, st[p].bal)
       IN IF w.teamPick # st[p].winner \/ ~w.addr \/ payout <= TxCost
             THEN /\ st' = [st EXCEPT ![p].idx = i + 1]
                  /\ UNCHANGED <<sEscrow, sRecv, sWagers>>
             ELSE \E sent \in SendOutcomes(sEscrow, payout) :
                     IF sent
                        THEN /\ sEscrow' = sEscrow - payout
                             /\ sRecv' = [sRecv EXCEPT ![i] = Append(@, Transfer("payout", payout))]
                             /\ sWagers' = [sWagers EXCEPT ![i].paidOut = TRUE]
                             /\ st' = [st EXCEPT ![p].idx = i + 1, ![p].tried = @ \cup {i}]
                        ELSE /\ st' = [st EXCEPT ![p].idx = AfterPayoutFailure(i), ![p].ok = FALSE,
                                                 ![p].tried = @ \cup {i}]
                             /\ UNCHANGED <<sEscrow, sRecv, sWagers>>
    /\ UNCHANGED <<locks, sGame, sRound, sTreasury, rf, lkr, cl, sCount>>
    /\ UNCHANGED <<notices, notSettleVars>>

\* A settlement message as the log shows it: what it was about, and whether
\* bot.api.sendMessage got it through or threw.
Notice(about, sent) == [about |-> about, sent |-> sent]

\* Mutant of UpdateKept: a notification that throws undoes the status update.
UpdateLostOnThrow(sent) == sent

\* settlement.ts:498-504 and part_006:568-580: the status update is awaited
\* before the try block of the notification is entered, and the catch of that
\* block (settlement.ts:535-537, part_006:608-610) only logs; so the update
\* stands whatever becomes of the message.
UpdateKept(sent) == TRUE

\* Mutant of PayoutsSuccessful: the flag is never found set.
NoneSuccessful(ok) == FALSE

\* Mutant of PayoutsSuccessful: a failed send is forgotten.
FailureForgotten(ok) == TRUE

\* settleRound lines 442, 492 and 498: the flag the catch of a payout clears.
PayoutsSuccessful(ok) == ok

\* settleRound lines 497-541: after the loop, SETTLED if no payout failed,
\* and then the message to the chat; the call returns.
SettleMark(p) ==
    /\ st[p].pc = "loop"
    /\ st[p].idx \notin DOMAIN sWagers
    /\ sRound' = IF PayoutsSuccessful(st[p].ok) /\ UpdateKept(chat = "up")
                    THEN [sRound EXCEPT !.status = "SETTLED"] ELSE sRound
    /\ notices' = IF PayoutsSuccessful(st[p].ok) THEN notices \cup {Notice(<<"round", 1>>, chat = "up")} ELSE notices
    /\ locks' = Released(locks, p)
    /\ st' = [st EXCEPT ![p] = IdleSettler]
    /\ UNCHANGED <<sGame, sWagers, sEscrow, sRecv, sTreasury, rf, lkr, cl, sCount>>
    /\ UNCHANGED notSettleVars

\* refundCancelledGame lines 546-558, called for a cancelled game: its OPEN
\* and LOCKED rounds with their wagers.
RefundStart ==
    /\ rf.pc = "idle"
    /\ sGame.status = "CANCELLED"
    /\ sRound.status \in {"OPEN", "LOCKED"}
    /\ rf' = [IdleRefunder EXCEPT !.pc = "acquire", !.paid = [i \in DOMAIN sWagers |-> sWagers[i].paidOut]]
    /\ sCount.refunds < MaxRefunds
    /\ sCount' = [sCount EXCEPT !.refunds = @ + 1]
    /\ UNCHANGED <<locks, sGame, sRound, sWagers, sEscrow, sRecv, sTreasury, st, lkr, cl>>
    /\ UNCHANGED <<notices, notSettleVars>>

\* refundRound lines 586-600: take the round lock, or return (lines 602-605);
\* under the lock re-read the round's status.
RefundLocked ==
    /\ rf.pc = "acquire"
    /\ IF CanAcquire(locks, RoundLock)
          THEN /\ locks' = Acquire(locks, RoundLock, InstanceOf("refund"), "refund", RoundLockTimeout)
               /\ rf' = [rf EXCEPT !.pc = "unlock", !.skipped = RefundSkips(sRound.status)]
          ELSE /\ rf' = IdleRefunder
               /\ UNCHANGED locks
    /\ UNCHANGED <<sGame, sRound, sWagers, sEscrow, sRecv, sTreasury, st, lkr, cl, sCount>>
    /\ UNCHANGED <<notices, notSettleVars>>

\* withLock's finally for the round lock, then refundRound lines 607-609.
RefundUnlock ==
    /\ rf.pc = "unlock"
    /\ locks' = DeleteOwned(locks, RoundLock, InstanceOf("refund"))
    /\ rf' = IF rf.skipped THEN IdleRefunder ELSE [rf EXCEPT !.pc = "loop", !.idx = 1]
    /\ UNCHANGED <<sGame, sRound, sWagers, sEscrow, sRecv, sTreasury, st, lkr, cl, sCount>>
    /\ UNCHANGED <<notices, notSettleVars>>

\* refundRound lines 613-638, one wager of the snapshot: skipped if the
\* snapshot has it paidOut, its user has no address or its amount does not
\* cover the transfer cost; otherwise the amount is sent and the wager marked
\* paidOut, or the failure is logged.
RefundWager ==
    /\ rf.pc = "loop"
    /\ rf.idx \in DOMAIN sWagers
    /\ LET i == rf.idx
           w == sWagers[i]
       IN IF rf.paid[i] \/ ~w.addr \/ w.amount <= TxCost
             THEN UNCHANGED <<sEscrow, sRecv, sWagers>>
             ELSE \E sent \in SendOutcomes(sEscrow, w.amount) :
                     IF sent
                        THEN /\ sEscrow' = sEscrow - w.amount
                             /\ sRecv' = [sRecv EXCEPT ![i] = Append(@, Transfer("refund", w.amount))]
                             /\ sWagers' = [sWagers EXCEPT ![i].paidOut = TRUE]
                        ELSE UNCHANGED <<sEscrow, sRecv, sWagers>>
    /\ rf' = [rf EXCEPT !.idx = rf.idx + 1]
    /\ UNCHANGED <<locks, sGame, sRound, sTreasury, st, lkr, cl, sCount>>
    /\ UNCHANGED <<notices, notSettleVars>>

\* refundRound lines 640-643: after the loop the round is marked CANCELLED.
RefundMark ==
    /\ rf.pc = "loop"
    /\ rf.idx \notin DOMAIN sWagers
    /\ sRound' = [sRound EXCEPT !.status = "CANCELLED"]
    /\ rf' = IdleRefunder
    /\ UNCHANGED <<locks, sGame, sWagers, sEscrow, sRecv, sTreasury, st, lkr, cl, sCount>>
    /\ UNCHANGED <<notices, notSettleVars>>

\* lockExpiredRounds lines 956-967: OPEN rounds whose expiresAt (the game's startTime) has passed.
LockerQuery ==
    /\ lkr.pc = "idle"
    /\ sRound.status = "OPEN"
    /\ sGame.clock # "upcoming"
    /\ lkr' = [lkr EXCEPT !.pc = "update"]
    /\ UNCHANGED <<locks, sGame, sRound, sWagers, sEscrow, sRecv, sTreasury, st, rf, cl, sCount>>
    /\ UNCHANGED <<notices, notSettleVars>>

\* lockExpiredRounds lines 970-973: the round found is updated to LOCKED, whatever it is now.
LockerUpdate ==
    /\ lkr.pc = "update"
    /\ sRound' = [sRound EXCEPT !.status = "LOCKED"]
    /\ lkr' = [lkr EXCEPT !.pc = "idle"]
    /\ UNCHANGED <<locks, sGame, sWagers, sEscrow, sRecv, sTreasury, st, rf, cl, sCount>>
    /\ UNCHANGED <<notices, notSettleVars>>

\* cleanupStaleGames lines 1084-1094: SCHEDULED games that started more than six hours ago.
CleanQuery ==
    /\ cl.pc = "idle"
    /\ sGame.status = "SCHEDULED"
    /\ sGame.clock = "stale"
    /\ cl' = [cl EXCEPT !.pc = "update"]
    /\ UNCHANGED <<locks, sGame, sRound, sWagers, sEscrow, sRecv, sTreasury, st, rf, lkr, sCount>>
    /\ UNCHANGED <<notices, notSettleVars>>

\* cleanupStaleGames lines 1097-1124: the games found are updated to
\* CANCELLED, whatever they are now, and their OPEN and LOCKED rounds are
\* updated to CANCELLED.
CleanUpdate ==
    /\ cl.pc = "update"
    /\ sGame' = [sGame EXCEPT !.status = "CANCELLED"]
    /\ sRound' = IF sRound.status \in {"OPEN", "LOCKED"} THEN [sRound EXCEPT !.status = "CANCELLED"] ELSE sRound
    /\ cl' = [cl EXCEPT !.pc = "idle"]
    /\ UNCHANGED <<locks, sWagers, sEscrow, sRecv, sTreasury, st, rf, lkr, sCount>>
    /\ UNCHANGED <<notices, notSettleVars>>

\* Time passes: the game's startTime, then six hours more.
ClockAdvance ==
    /\ sGame.clock # "stale"
    /\ sGame' = [sGame EXCEPT !.clock = IF sGame.clock = "upcoming" THEN "started" ELSE "stale"]
    /\ UNCHANGED <<locks, sRound, sWagers, sEscrow, sRecv, sTreasury, st, rf, lkr, cl, sCount>>
    /\ UNCHANGED <<notices, notSettleVars>>

\* The result feed (or /admin simend, admin.ts:585-597) reports the started
\* game final; winner is null for a tie.
FeedFinal(winner) ==
    /\ sGame.status = "SCHEDULED"
    /\ sGame.clock # "upcoming"
    /\ sGame' = [sGame EXCEPT !.status = "FINAL", !.winner = winner]
    /\ UNCHANGED <<locks, sRound, sWagers, sEscrow, sRecv, sTreasury, st, rf, lkr, cl, sCount>>
    /\ UNCHANGED <<notices, notSettleVars>>

\* The result feed reports the game cancelled; the upsert (index.ts:454-461)
\* overwrites the status whatever it is, a FINAL reported earlier included.
FeedCancelled ==
    /\ sGame.status \in {"SCHEDULED", "FINAL"}
    /\ sGame' = [sGame EXCEPT !.status = "CANCELLED"]
    /\ UNCHANGED <<locks, sRound, sWagers, sEscrow, sRecv, sTreasury, st, rf, lkr, cl, sCount>>
    /\ UNCHANGED <<notices, notSettleVars>>

\* The lease on r outlives its TTL while its holder is still at work, and the
\* reap of a later acquireLock (locks.ts:25-29) removes it.
LeaseLapse(r) ==
    /\ r \in Locked(locks)
    /\ locks' = {row \in locks : row.resourceId # r}
    /\ sCount.lapses < MaxLapses
    /\ sCount' = [sCount EXCEPT !.lapses = @ + 1]
    /\ UNCHANGED <<sGame, sRound, sWagers, sEscrow, sRecv, sTreasury, st, rf, lkr, cl>>
    /\ UNCHANGED <<notices, notSettleVars>>

\* An OPEN round of an upcoming game with its two wagers placed: a funded
\* wager on the home team whose user may have no payout address, and a
\* wager on either team that may still be unfunded; the escrow holds
\* the wagers' amounts, or nothing or next to nothing (a wager's amount is
\* recorded by the conversational path without a deposit being seen).
SettleInit ==
    /\ sGame = [status |-> "SCHEDULED", winner |-> Null, clock |-> "upcoming"]
    /\ sRound = [status |-> "OPEN"]
    /\ \E a1 \in SettleAmounts \ {0}, h1 \in BOOLEAN, t2 \in Teams, a2 \in SettleAmounts :
          sWagers = <<[teamPick |-> "home", amount |-> a1, addr |-> h1, paidOut |-> FALSE],
                      [teamPick |-> t2, amount |-> a2, addr |-> TRUE, paidOut |-> FALSE]>>
    /\ sEscrow \in {0, DustBalance, SumAmounts(sWagers, DOMAIN sWagers)}
    /\ sRecv = [i \in DOMAIN sWagers |-> << >>]
    /\ sTreasury = << >>
    /\ st = [p \in Settlers |-> IdleSettler]
    /\ rf = IdleRefunder
    /\ lkr = [pc |-> "idle"]
    /\ cl = [pc |-> "idle"]
    /\ sCount = [passes |-> 0, refunds |-> 0, lapses |-> 0]

ParkSettle ==
    /\ sGame = Null
    /\ sRound = Null
    /\ sWagers = << >>
    /\ sEscrow = 0
    /\ sRecv = << >>
    /\ sTreasury = << >>
    /\ st = << >>
    /\ rf = Null
    /\ lkr = Null
    /\ cl = Null
    /\ sCount = Null

NextSettle ==
    \/ \E p \in Settlers : SettleStart(p)
    \/ \E p \in Settlers : SettleLocked(p)
    \/ \E p \in Settlers : SettleUnlock(p)
    \/ \E p \in Settlers : SettleCompute(p)
    \/ \E p \in Settlers : SettleNoWinners(p)
    \/ \E p \in Settlers : SettlePayout(p)
    \/ \E p \in Settlers : SettleMark(p)
    \/ RefundStart
    \/ RefundLocked
    \/ RefundUnlock
    \/ RefundWager
    \/ RefundMark
    \/ LockerQuery
    \/ LockerUpdate
    \/ CleanQuery
    \/ CleanUpdate
    \/ ClockAdvance
    \/ \E w \in {Null, Some("home"), Some("away")} : FeedFinal(w)
    \/ FeedCancelled
    \/ \E r \in {SchedulerLock, RoundLock} : LeaseLapse(r)

-----------------------------------------------------------------------------
(***************************************************************************)
(* DEPOSIT RECONCILIATION                                                  *)
(* (event path: src/unnamed/part_006 lines 33-180, processWalletDeposit;   *)
(*  poll path: src/src/services/houseBet.ts lines 754-950,                 *)
(*  pollWalletDeposits)                                                    *)
(*                                                                         *)
(* One OPEN round with its pending wagers and its escrow wallet.  Amounts  *)
(* are lamports.  The chain is read as it is: getRecentTransactions        *)
(* returns the transfers into the wallet, newest first, getTransaction     *)
(* their amounts, and an account-change notification carries the balance   *)
(* after the transfer.  Chat notifications are not modelled.               *)
(***************************************************************************)

\* MIN_BET_LAMPORTS = 0.01 * 1_000_000_000 (constants.ts:12).
MinBetLamports == 10000000

\* RENT_EXEMPT_MIN (part_006:118).
RentExemptMin == 890880

\* maxP2pLamports = MAX_P2P_BET_SOL * LAMPORTS_PER_SOL (houseBet.ts:807); the model takes 0.1 SOL.
MaxP2pLamports == 100000000

\* Transfers into the escrow wallet the model explores.
MaxDeposits == 2

\* Wagers of the round.
MaxWagers == 2

\* Transferred amounts: below the minimum, the minimum, twice the minimum, above the maximum.
DepositAmounts == {MinBetLamports \div 2, MinBetLamports, 2 * MinBetLamports, MaxP2pLamports + MinBetLamports}

\* The pollWalletDeposits calls that may overlap (a cron tick every 30 s, houseBet.ts:1020).
Pollers == {"p1", "p2"}

\* withLock(`deposit:${walletAddress}`, ...) (part_006:93).
DepositLock == "deposit:wallet"

\* withLock('scheduler:deposit_poll', ...) (houseBet.ts:756).
PollLock == "scheduler:deposit_poll"

\* Leases of the two locks, 30000 ms (part_006:179) and 120000 ms (houseBet.ts:945), in ticks of 30 s.
DepositLockTimeout == 1

PollLockTimeout == 4

RECURSIVE SumChain(_, _)
SumChain(chain, n) == IF n = 0 THEN 0 ELSE chain[n] + SumChain(chain, n - 1)

\* The wallet's balance: what has been transferred in.
WalletBalance(chain) == SumChain(chain, Len(chain))

\* The wagers with amount 0 and no txSignature (part_006:111, houseBet.ts:828-833).
PendingWagers(wagers) == {i \in DOMAIN wagers : wagers[i].amount = 0 /\ IsNull(wagers[i].txSignature)}

\* find / findFirst: the first of them in query order.
FirstPending(wagers) == CHOOSE i \in PendingWagers(wagers) : \A j \in PendingWagers(wagers) : i <= j

\* part_006:135, houseBet.ts:815.
Capped(amount) == IF amount > MaxP2pLamports THEN MaxP2pLamports ELSE amount

\* Mutant of LedgerConflicts: the ledger has no unique index on signature.
LedgerNeverConflicts(ledger, sig) == FALSE

\* Unique constraint on signature: create throws P2002 when a row for sig exists
\* (locks.ts:123-127, houseBet.ts:931-934).
LedgerConflicts(ledger, sig) == \E row \in ledger : row.signature = sig

\* isTransactionProcessed (locks.ts:95-100).
isTransactionProcessed(ledger, sig) == \E row \in ledger : row.signature = sig

\* processedTransaction.create (locks.ts:113-120, houseBet.ts:859-865, 922-928), once the
\* unique index let it through; id is the row's generated key.
LedgerInsert(ledger, sig, amount) ==
    ledger \cup {[id |-> Cardinality(ledger) + 1, signature |-> sig, amount |-> amount]}

IdleEvent == [pc |-> "idle", sig |-> 0, idx |-> 0, amount |-> 0]

\* A pollWalletDeposits call: its place, the transfer it is at and its amount;
\* hit is history: the last signature whose ledger row it found taken (P2002).
IdlePoller == [pc |-> "idle", next |-> 0, amount |-> 0, hit |-> 0]

\* Mutant of AttributionCommits: the wager and totalPot updates stay when the
\* ledger create throws.
AttributionAlwaysCommits(ledger, sig) == TRUE

\* houseBet.ts:826-872: the three writes are in one $transaction, which
\* commits unless the create of the ledger row throws.
AttributionCommits(ledger, sig) == ~LedgerConflicts(ledger, sig)

\* A transfer of amt lamports into the escrow wallet; the subscription
\* (part_006:44-56) is notified of the new balance.
UserDeposit(amt) ==
    /\ Len(dChain) < MaxDeposits
    /\ dChain' = Append(dChain, amt)
    /\ dNotify' = dNotify \cup {[sig |-> Len(dChain) + 1, newBalance |-> WalletBalance(dChain) + amt]}
    /\ dWrites' = Append(dWrites, 0)
    /\ dDone' = Append(dDone, {})
    /\ UNCHANGED <<locks, dRound, dWagers, dLedger, ev, pl>>
    /\ UNCHANGED notDepositVars

\* The subscription callback (part_006:46-56) hands a notification to
\* processWalletDeposit, lines 93-135: take the wallet's deposit lock, read
\* the round, find the first pending wager and compute the deposit from the
\* new balance.  The call ends here if the lock is taken, the round is not
\* OPEN, no wager is pending, or the increase is below the minimum.
EvStart(sig) ==
    /\ ev.pc = "idle"
    /\ \E m \in dNotify : m.sig = sig
    /\ dNotify' = {m \in dNotify : m.sig # sig}
    /\ LET n == CHOOSE m \in dNotify : m.sig = sig
           expectedPreviousBalance == dRound.totalPot + RentExemptMin
           depositAmount == n.newBalance - expectedPreviousBalance
           proceeds == /\ CanAcquire(locks, DepositLock)
                       /\ dRound.status = "OPEN"
                       /\ PendingWagers(dWagers) # {}
                       /\ n.newBalance > expectedPreviousBalance
                       /\ depositAmount >= MinBetLamports
       IN IF proceeds
             THEN /\ locks' = Acquire(locks, DepositLock, "A", "ev", DepositLockTimeout)
                  /\ ev' = [pc |-> "write", sig |-> n.sig, idx |-> FirstPending(dWagers),
                            amount |-> Capped(depositAmount)]
                  /\ UNCHANGED dDone
             ELSE /\ dDone' = [dDone EXCEPT ![n.sig] = @ \cup {"event"}]
                  /\ UNCHANGED <<locks, ev>>
    /\ UNCHANGED <<dRound, dWagers, dLedger, dChain, pl, dWrites>>
    /\ UNCHANGED notDepositVars

\* processWalletDeposit lines 138-154 and withLock's finally: the wager read
\* earlier gets the amount and a ws_ reference, totalPot is incremented; no
\* ProcessedTransaction row is written.
EvWrite ==
    /\ ev.pc = "write"
    /\ dWagers' = [dWagers EXCEPT ![ev.idx] = [amount |-> ev.amount, txSignature |-> Some("ws")]]
    /\ dRound' = [dRound EXCEPT !.totalPot = @ + ev.amount]
    /\ dWrites' = [dWrites EXCEPT ![ev.sig] = @ + 1]
    /\ dDone' = [dDone EXCEPT ![ev.sig] = @ \cup {"event"}]
    /\ locks' = DeleteOwned(locks, DepositLock, "A")
    /\ ev' = IdleEvent
    /\ UNCHANGED <<dLedger, dChain, dNotify, pl>>
    /\ UNCHANGED notDepositVars

\* pollWalletDeposits lines 756-773: take the poll lock, query the OPEN
\* rounds and the recent transfers into the round's wallet, newest first.
\* A call that does not get the lock, or finds no OPEN round or no transfer,
\* changes nothing.
PollStart(p) ==
    /\ pl[p].pc = "idle"
    /\ p = "p2" => pl["p1"].pc # "idle"
    /\ CanAcquire(locks, PollLock)
    /\ dRound.status = "OPEN"
    /\ dChain # << >>
    /\ locks' = Acquire(locks, PollLock, "A", p, PollLockTimeout)
    /\ pl' = [pl EXCEPT ![p] = [pc |-> "tx", next |-> Len(dChain), amount |-> 0, hit |-> 0]]
    /\ UNCHANGED <<dRound, dWagers, dLedger, dChain, dNotify, ev, dWrites, dDone>>
    /\ UNCHANGED notDepositVars

\* pollWalletDeposits lines 775-821, one transfer: skipped if the ledger has
\* its signature; recorded in the ledger and skipped if below the minimum
\* (markTransactionProcessed ignores a conflict); otherwise attributed next.
PollCheck(p) ==
    /\ pl[p].pc = "tx"
    /\ pl[p].next >= 1
    /\ LET sig == pl[p].next
           depositAmount == dChain[sig]
       IN IF isTransactionProcessed(dLedger, sig)
             THEN /\ pl' = [pl EXCEPT ![p].next = sig - 1]
                  /\ dDone' = [dDone EXCEPT ![sig] = @ \cup {"poll"}]
                  /\ UNCHANGED dLedger
             ELSE IF depositAmount < MinBetLamports
                     THEN /\ dLedger' = IF LedgerConflicts(dLedger, sig) THEN dLedger
                                        ELSE LedgerInsert(dLedger, sig, depositAmount)
                          /\ pl' = [pl EXCEPT ![p].next = sig - 1]
                          /\ dDone' = [dDone EXCEPT ![sig] = @ \cup {"poll"}]
                     ELSE /\ pl' = [pl EXCEPT ![p].pc = "attribute", ![p].amount = depositAmount]
                          /\ UNCHANGED <<dLedger, dDone>>
    /\ UNCHANGED <<locks, dRound, dWagers, dChain, dNotify, ev, dWrites>>
    /\ UNCHANGED notDepositVars

\* pollWalletDeposits lines 826-872 and 931-938, the $transaction: without a
\* pending wager it returns no_pending_wager; otherwise the first pending
\* wager gets the capped amount and the signature, totalPot is incremented
\* and the ledger row created; a conflict on the ledger row rolls all of it
\* back and is ignored.
PollAttribute(p) ==
    /\ pl[p].pc = "attribute"
    /\ LET sig == pl[p].next
           cappedAmount == Capped(pl[p].amount)
       IN IF PendingWagers(dWagers) = {}
             THEN /\ pl' = [pl EXCEPT ![p].pc = "unattributed"]
                  /\ UNCHANGED <<dRound, dWagers, dLedger, dWrites, dDone>>
             ELSE IF ~AttributionCommits(dLedger, sig)
                     THEN /\ pl' = [pl EXCEPT ![p].pc = "tx", ![p].next = sig - 1, ![p].hit = sig]
                          /\ dDone' = [dDone EXCEPT ![sig] = @ \cup {"poll"}]
                          /\ UNCHANGED <<dRound, dWagers, dLedger, dWrites>>
                     ELSE /\ dWagers' = [dWagers EXCEPT ![FirstPending(dWagers)] =
                                            [amount |-> cappedAmount, txSignature |-> Some(sig)]]
                          /\ dRound' = [dRound EXCEPT !.totalPot = @ + cappedAmount]
                          /\ dLedger' = IF LedgerConflicts(dLedger, sig) THEN dLedger
                                        ELSE LedgerInsert(dLedger, sig, cappedAmount)
                          /\ dWrites' = [dWrites EXCEPT ![sig] = @ + 1]
                          /\ dDone' = [dDone EXCEPT ![sig] = @ \cup {"poll"}]
                          /\ pl' = [pl EXCEPT ![p].pc = "tx", ![p].next = sig - 1,
                                              ![p].hit = IF LedgerConflicts(dLedger, sig) THEN sig ELSE @]
    /\ UNCHANGED <<locks, dChain, dNotify, ev>>
    /\ UNCHANGED notDepositVars

\* pollWalletDeposits lines 905-938: without a pending wager the uncapped
\* amount is added to totalPot and the ledger row created, in one
\* transaction; a conflict on the ledger row rolls it back and is ignored.
PollUnattributed(p) ==
    /\ pl[p].pc = "unattributed"
    /\ LET sig == pl[p].next
       IN /\ IF LedgerConflicts(dLedger, sig)
                THEN UNCHANGED <<dRound, dLedger>>
                ELSE /\ dRound' = [dRound EXCEPT !.totalPot = @ + pl[p].amount]
                     /\ dLedger' = LedgerInsert(dLedger, sig, pl[p].amount)
          /\ dDone' = [dDone EXCEPT ![sig] = @ \cup {"poll"}]
          /\ pl' = [pl EXCEPT ![p].pc = "tx", ![p].next = sig - 1,
                              ![p].hit = IF LedgerConflicts(dLedger, sig) THEN sig ELSE @]
    /\ UNCHANGED <<locks, dWagers, dChain, dNotify, ev, dWrites>>
    /\ UNCHANGED notDepositVars

\* pollWalletDeposits lines 944-945: the loop is through; withLock's finally.
PollEnd(p) ==
    /\ pl[p].pc = "tx"
    /\ pl[p].next = 0
    /\ locks' = DeleteOwned(locks, PollLock, "A")
    /\ pl' = [pl EXCEPT ![p] = IdlePoller]
    /\ UNCHANGED <<dRound, dWagers, dLedger, dChain, dNotify, ev, dWrites, dDone>>
    /\ UNCHANGED notDepositVars

\* The lease on the poll lock outlives its TTL while its holder is still at
\* work, and the reap of a later acquireLock (locks.ts:25-29) removes it.
\* Only a lapse that lets the second pass in is explored.
PollLeaseLapse ==
    /\ \E row \in locks : row.resourceId = PollLock /\ row.call = "p1" /\ pl["p1"].pc # "idle"
    /\ pl["p2"].pc = "idle"
    /\ locks' = {row \in locks : row.resourceId # PollLock}
    /\ UNCHANGED <<dRound, dWagers, dLedger, dChain, dNotify, ev, pl, dWrites, dDone>>
    /\ UNCHANGED notDepositVars

\* lockExpiredRounds (houseBet.ts:953-973): the game starts and the round is LOCKED.
DepositRoundLocked ==
    /\ dRound.status = "OPEN"
    /\ dRound' = [dRound EXCEPT !.status = "LOCKED"]
    /\ UNCHANGED <<locks, dWagers, dLedger, dChain, dNotify, ev, pl, dWrites, dDone>>
    /\ UNCHANGED notDepositVars

\* An OPEN round with its pending wagers, created by the team selection
\* (part_003) or an accepted challenge (challenge.ts:207-235); nothing has been transferred yet.
DepositInit ==
    /\ dRound = [status |-> "OPEN", totalPot |-> 0]
    /\ \E n \in 1..MaxWagers : dWagers = [i \in 1..n |-> [amount |-> 0, txSignature |-> Null]]
    /\ dLedger = {}
    /\ dChain = << >>
    /\ dNotify = {}
    /\ ev = IdleEvent
    /\ pl = [p \in Pollers |-> IdlePoller]
    /\ dWrites = << >>
    /\ dDone = << >>

ParkDeposit ==
    /\ dRound = Null
    /\ dWagers = << >>
    /\ dLedger = {}
    /\ dChain = << >>
    /\ dNotify = {}
    /\ ev = Null
    /\ pl = << >>
    /\ dWrites = << >>
    /\ dDone = << >>

NextDeposit ==
    \/ \E amt \in DepositAmounts : UserDeposit(amt)
    \/ \E sig \in 1..MaxDeposits : EvStart(sig)
    \/ EvWrite
    \/ \E p \in Pollers : PollStart(p)
    \/ \E p \in Pollers : PollCheck(p)
    \/ \E p \in Pollers : PollAttribute(p)
    \/ \E p \in Pollers : PollUnattributed(p)
    \/ \E p \in Pollers : PollEnd(p)
    \/ PollLeaseLapse
    \/ DepositRoundLocked

-----------------------------------------------------------------------------
(***************************************************************************)
(* HOUSE-BET SETTLEMENT                                                    *)
(* (src/unnamed/part_006 lines 356-613: settleHouseBets and                *)
(*  settleHouseBetWithPool)                                                *)
(*                                                                         *)
(* One game with its ACTIVE house bets, each with its own deposit wallet   *)
(* holding the stake.  Amounts are lamports.  A send (sendSol) either      *)
(* succeeds, debiting the sending wallet by the amount and the network     *)
(* fee that the code's own bookkeeping charges (lines 511 and 536), or     *)
(* throws; it throws when the wallet cannot cover both.  getWalletBalance  *)
(* and the database are assumed available, every bet has a deposit wallet  *)
(* (lines 411, 503 and 523 hold), and chat notifications are not           *)
(* modelled.  settleHouseBets takes no lock, so calls may overlap.         *)
(***************************************************************************)

\* txFee of settleHouseBetWithPool, in lamports.
TxFee == 5000

\* Number of house bets on the game.
NHouseBets == 2

HouseBetIds == 1..NHouseBets

\* The stakes a bet is placed with: 0.01 and 0.02 SOL.
HouseStakes == {10000000, 20000000}

\* The game's odds (American format) when the bets were placed.
HouseGameOdds == [home |-> 0 - 200, away |-> 100, over |-> 0 - 110]

\* What a bet can be on: either side's moneyline, or over a total of 3 points.
HouseKinds == {[betType |-> "MONEYLINE", pick |-> "home", line |-> Null],
               [betType |-> "MONEYLINE", pick |-> "away", line |-> Null],
               [betType |-> "TOTAL_OVER", pick |-> "over", line |-> Some(6)]}

\* The final scores the result feed may record: 2-1, 1-2, or none.
HouseFinals == {<<Some(2), Some(1)>>, <<Some(1), Some(2)>>, <<Null, Null>>}

\* The calls of settleHouseBets that may overlap.
HouseCallers == {"h1", "h2"}

\* calculatePayout (odds.ts): stake plus profit at American odds.
calculatePayout(amount, odds) ==
    amount + (IF odds > 0 THEN (amount * odds) \div 100 ELSE (amount * 100) \div (0 - odds))

\* createHouseBet lines 259-308, followed by the deposit that made the bet ACTIVE.
HouseBetRow(kind, amount, addr) ==
    [betType |-> kind.betType, pick |-> kind.pick, line |-> kind.line,
     amount |-> amount, potentialWin |-> calculatePayout(amount, HouseGameOdds[kind.pick]),
     addr |-> addr, status |-> "ACTIVE", result |-> Null,
     payoutTx |-> [sent |-> FALSE, owes |-> 0]]

\* The outcomes of sendSol of `amount` from a wallet holding `balance`.
HouseSendOutcomes(balance, amount) == IF amount + TxFee <= balance THEN {TRUE, FALSE} ELSE {FALSE}

\* settleHouseBets lines 392-397.
PayoutNeeded(bet, result) ==
    IF result = "WIN" THEN bet.potentialWin ELSE IF result = "PUSH" THEN bet.amount ELSE 0

\* settleHouseBets lines 358-390: the ACTIVE bets of the FINAL game that can be graded.
Gradable(i) == hBets[i].status = "ACTIVE" /\ determineHouseBetResult(hBets[i], hGame) # "NONE"

\* settleHouseBets lines 387-402: betsToSettle, in query order.
BetsToSettle ==
    LET ids == SelectSeq([i \in HouseBetIds |-> i], Gradable)
    IN [k \in DOMAIN ids |->
           LET result == determineHouseBetResult(hBets[ids[k]], hGame)
           IN [id |-> ids[k], result |-> result, payoutNeeded |-> PayoutNeeded(hBets[ids[k]], result)]]

\* A settleHouseBets call: its place, betsToSettle, walletBalances, the bet and
\* the loser it is at, remainingToPay and payoutTx; snap and drawn are history:
\* the balances as snapshotted and what the call has drawn from each wallet.
IdleHouseCaller == [pc |-> "idle", batch |-> << >>, bal |-> << >>, idx |-> 0,
                    remaining |-> 0, sent |-> FALSE, oidx |-> 0,
                    snap |-> << >>, drawn |-> << >>]

\* Mutant of PayFrom: the whole remainder is asked of the wallet.
PayAllRemaining(balance, remaining) == remaining

\* settleHouseBetWithPool lines 506 and 529-530: what a wallet with tracked
\* balance `balance` contributes to a remainder of `remaining`.
PayFrom(balance, remaining) == Min(balance - TxFee, remaining)

\* A further transfer into a deposit wallet: 0.01 SOL.
HouseTopUp == 10000000

\* Somebody transfers a further amount to the deposit address of a bet
\* while a settlement call is at work: the address is public once the bet is
\* created (createHouseBet returns it), and nothing closes it.
HouseDeposit(i) ==
    /\ \E p \in HouseCallers : hc[p].pc # "idle"
    /\ hWallet[i] = hBets[i].amount
    /\ \A j \in HouseBetIds : hWallet[j] <= hBets[j].amount
    /\ hWallet' = [hWallet EXCEPT ![i] = @ + HouseTopUp]
    /\ UNCHANGED <<hGame, hBets, hDrawn, hc, hRuns>>
    /\ UNCHANGED <<notices, notHouseVars>>

\* The result feed marks the game FINAL, with its scores when it has them.
HouseGameFinal(hsc, asc) ==
    /\ hGame.status = "LIVE"
    /\ hGame' = [status |-> "FINAL", homeScore |-> hsc, awayScore |-> asc, winner |-> WinnerOf(hsc, asc)]
    /\ UNCHANGED <<hBets, hWallet, hDrawn, hc, hRuns>>
    /\ UNCHANGED <<notices, notHouseVars>>

\* settleHouseBets lines 356-421: the query, the grading and the snapshot of the wallet balances.
HouseStart(p) ==
    /\ hc[p].pc = "idle"
    /\ p = "h2" => hc["h1"].pc # "idle"
    /\ hGame.status = "FINAL"
    /\ Len(BetsToSettle) > 0
    /\ hc' = [hc EXCEPT ![p] = [IdleHouseCaller EXCEPT
                  !.pc = "own", !.batch = BetsToSettle, !.idx = 1,
                  !.bal = [i \in {BetsToSettle[k].id : k \in DOMAIN BetsToSettle} |-> hWallet[i]],
                  !.snap = [i \in {BetsToSettle[k].id : k \in DOMAIN BetsToSettle} |-> hWallet[i]],
                  !.drawn = [i \in {BetsToSettle[k].id : k \in DOMAIN BetsToSettle} |-> 0]]]
    /\ UNCHANGED <<hGame, hBets, hWallet, hDrawn, hRuns>>
    /\ UNCHANGED <<notices, notHouseVars>>

\* A successful send of `amount` from the wallet of bet `from` to the user of bet `to`.
HouseSent(from, to, amount) ==
    /\ hWallet' = [hWallet EXCEPT ![from] = @ - amount - TxFee]
    /\ hDrawn' = [hDrawn EXCEPT ![from][to] = @ + amount]

\* settleHouseBetWithPool lines 495-517: the payment from the bet's own wallet.
HouseOwn(p) ==
    /\ hc[p].pc = "own"
    /\ LET e == hc[p].batch[hc[p].idx]
           bet == hBets[e.id]
           ownBalance == hc[p].bal[e.id]
           payFromOwn == PayFrom(ownBalance, e.payoutNeeded)
           After(remaining) == IF remaining > 0 THEN "pool" ELSE "mark"
       IN IF e.payoutNeeded > 0 /\ bet.addr
             THEN IF ownBalance > TxFee
                     THEN \E sent \in HouseSendOutcomes(hWallet[e.id], payFromOwn) :
                             IF sent
                                THEN /\ HouseSent(e.id, e.id, payFromOwn)
                                     /\ hc' = [hc EXCEPT ![p].remaining = e.payoutNeeded - payFromOwn,
                                                         ![p].sent = TRUE,
                                                         ![p].bal[e.id] = ownBalance - payFromOwn - TxFee,
                                                         ![p].drawn[e.id] = @ + payFromOwn,
                                                         ![p].oidx = 1,
                                                         ![p].pc = After(e.payoutNeeded - payFromOwn)]
                                ELSE /\ hc' = [hc EXCEPT ![p].remaining = e.payoutNeeded, ![p].sent = FALSE,
                                                         ![p].oidx = 1, ![p].pc = "pool"]
                                     /\ UNCHANGED <<hWallet, hDrawn>>
                     ELSE /\ hc' = [hc EXCEPT ![p].remaining = e.payoutNeeded, ![p].sent = FALSE,
                                              ![p].oidx = 1, ![p].pc = "pool"]
                          /\ UNCHANGED <<hWallet, hDrawn>>
             ELSE /\ hc' = [hc EXCEPT ![p].remaining = 0, ![p].sent = FALSE, ![p].pc = "mark"]
                  /\ UNCHANGED <<hWallet, hDrawn>>
    /\ UNCHANGED <<hGame, hBets, hRuns>>
    /\ UNCHANGED <<notices, notHouseVars>>

\* Mutant of PoolCandidates: the wallet of any other bet of the batch is drawn from.
PoolOfAllBets(p) ==
    LET batch == hc[p].batch
        own == batch[hc[p].idx].id
    IN {k \in hc[p].oidx..Len(batch) :
           /\ batch[k].id # own
           /\ hc[p].bal[batch[k].id] > TxFee}

\* settleHouseBetWithPool lines 521-527: the entries of allBets, from position k on, that the loop draws from.
PoolCandidates(p) ==
    LET batch == hc[p].batch
        own == batch[hc[p].idx].id
    IN {k \in hc[p].oidx..Len(batch) :
           /\ batch[k].result = "LOSS"
           /\ batch[k].id # own
           /\ hc[p].bal[batch[k].id] > TxFee}

\* settleHouseBetWithPool lines 519-552: one iteration of the loop over the
\* losing bets' wallets that reaches a send, or the end of the loop.
HousePool(p) ==
    /\ hc[p].pc = "pool"
    /\ LET e == hc[p].batch[hc[p].idx]
           cands == PoolCandidates(p)
       IN IF cands = {}
             THEN /\ hc' = [hc EXCEPT ![p].pc = "mark"]
                  /\ UNCHANGED <<hWallet, hDrawn>>
             ELSE LET k == CHOOSE c \in cands : \A d \in cands : c <= d
                      other == hc[p].batch[k].id
                      otherBalance == hc[p].bal[other]
                      toTransfer == PayFrom(otherBalance, hc[p].remaining)
                  IN \E sent \in HouseSendOutcomes(hWallet[other], toTransfer) :
                        IF sent
                           THEN /\ HouseSent(other, e.id, toTransfer)
                                /\ hc' = [hc EXCEPT ![p].remaining = @ - toTransfer,
                                                    ![p].bal[other] = otherBalance - toTransfer - TxFee,
                                                    ![p].drawn[other] = @ + toTransfer,
                                                    ![p].oidx = k + 1,
                                                    ![p].pc = IF hc[p].remaining - toTransfer <= 0
                                                                 THEN "mark" ELSE "pool"]
                           ELSE /\ hc' = [hc EXCEPT ![p].oidx = k + 1]
                                /\ UNCHANGED <<hWallet, hDrawn>>
    /\ UNCHANGED <<hGame, hBets, hRuns>>
    /\ UNCHANGED <<notices, notHouseVars>>

\* settleHouseBetWithPool lines 554-612 and settleHouseBets lines 451-457: the
\* shortfall marker, the update of the bet, the message to the chat, and the
\* move to the next bet of the batch.
HouseMark(p) ==
    /\ hc[p].pc = "mark"
    /\ LET e == hc[p].batch[hc[p].idx]
           last == hc[p].idx = Len(hc[p].batch)
       IN /\ hBets' = IF UpdateKept(chat = "up")
                         THEN [hBets EXCEPT ![e.id].status = "SETTLED",
                                            ![e.id].result = Some(e.result),
                                            ![e.id].payoutTx = [sent |-> hc[p].sent, owes |-> hc[p].remaining]]
                         ELSE hBets
          /\ notices' = notices \cup {Notice(<<"bet", e.id>>, chat = "up")}
          /\ hc' = [hc EXCEPT ![p] = IF last THEN IdleHouseCaller
                                     ELSE [hc[p] EXCEPT !.pc = "own", !.idx = @ + 1, !.remaining = 0,
                                                       !.sent = FALSE, !.oidx = 0]]
          /\ hRuns' = IF last THEN hRuns \cup {{hc[p].batch[k].id : k \in DOMAIN hc[p].batch}} ELSE hRuns
    /\ UNCHANGED <<hGame, hWallet, hDrawn>>
    /\ UNCHANGED notHouseVars

HouseInit ==
    /\ hGame = [status |-> "LIVE", homeScore |-> Null, awayScore |-> Null, winner |-> Null]
    /\ hBets \in [HouseBetIds -> {HouseBetRow(kind, amount, addr) :
                                     kind \in HouseKinds, amount \in HouseStakes, addr \in BOOLEAN}]
    /\ hWallet = [i \in HouseBetIds |-> hBets[i].amount]
    /\ hDrawn = [i \in HouseBetIds |-> [j \in HouseBetIds |-> 0]]
    /\ hc = [p \in HouseCallers |-> IdleHouseCaller]
    /\ hRuns = {}

ParkHouse ==
    /\ hGame = Null
    /\ hBets = << >>
    /\ hWallet = << >>
    /\ hDrawn = << >>
    /\ hc = << >>
    /\ hRuns = {}

NextHouse ==
    \/ \E f \in HouseFinals : HouseGameFinal(f[1], f[2])
    \/ \E p \in HouseCallers : HouseStart(p)
    \/ \E p \in HouseCallers : HouseOwn(p)
    \/ \E p \in HouseCallers : HousePool(p)
    \/ \E p \in HouseCallers : HouseMark(p)
    \/ \E i \in HouseBetIds : HouseDeposit(i)

-----------------------------------------------------------------------------
(***************************************************************************)
(* WAGER PLACEMENT                                                         *)
(* (team selection: src/unnamed/part_003 lines 11-157, handleTeamSelection;*)
(*  conversational P2P bet: src/src/bot/handlers/conversational.ts lines   *)
(*  410-442 and 773-805; accepted challenge: src/src/bot/callbacks/        *)
(*  challenge.ts lines 154-244)                                            *)
(*                                                                         *)
(* One game in one chat, with the rounds created for it and their wagers.  *)
(* The Wager table is a set of rows; its unique index on (roundId, userId) *)
(* is the compound key roundId_userId that handleTeamSelection looks       *)
(* wagers up by (part_003:114-120).  The writes of a $transaction become   *)
(* visible when it commits.  The team pick and the amount of a wager play  *)
(* no part in its creation and are left out of the rows.                   *)
(***************************************************************************)

\* Rounds that can be created for the game and chat.
MaxRounds == 2

WagerUsers == {"u1", "u2"}

\* The handleTeamSelection calls that may overlap.
TeamCalls == {"t1", "t2"}

\* withLock(`bet:${game.id}:${chatId}:${user.id}`, ...) (part_003:64).
BetLock(u) == <<"bet", u>>

\* Lease of the bet lock, 30000 ms (part_003:157), in clock ticks of 30 s.
BetLockTimeout == 1

\* Mutant of WagerConflicts: the table has no unique index on (roundId, userId).
WagerNeverConflicts(wagers, r, u) == FALSE

\* Unique constraint on (roundId, userId): create throws P2002 when the user has a wager in the round.
WagerConflicts(wagers, r, u) == \E w \in wagers : w.round = r /\ w.user = u

\* tx.wager.findUnique({ where: { roundId_userId } }) (part_003:114-121).
HasWager(wagers, r, u) == \E w \in wagers : w.round = r /\ w.user = u

\* wager.create; id is the row's generated key.
WagerInsert(wagers, r, u) == wagers \cup {[id |-> Cardinality(wagers) + 1, round |-> r, user |-> u]}

\* round.findFirst({ where: { gameId, chatId, status: 'OPEN' } }): the first OPEN round, 0 if none.
OpenRound(rounds) ==
    IF \E r \in DOMAIN rounds : rounds[r] = "OPEN"
       THEN CHOOSE r \in DOMAIN rounds : rounds[r] = "OPEN" /\ \A q \in DOMAIN rounds : rounds[q] = "OPEN" => r <= q
       ELSE 0

IdleTeamCall == [pc |-> "idle", user |-> "u1", round |-> 0]

\* handleTeamSelection lines 64-125: take the user's bet lock and, in the
\* transaction, look for the OPEN round and for the user's wager in it.  A
\* call that does not get the lock changes nothing; a call that finds the
\* wager returns it and releases the lock.
TeamStart(c, u) ==
    /\ tsel[c].pc = "idle"
    /\ c = "t2" => tsel["t1"].pc # "idle"
    /\ CanAcquire(locks, BetLock(u))
    /\ LET round == OpenRound(wRounds)
       IN IF round # 0 /\ HasWager(wWagers, round, u)
             THEN /\ locks' = ReapExpired(locks, now)
                  /\ UNCHANGED tsel
             ELSE /\ locks' = Acquire(locks, BetLock(u), "A", c, BetLockTimeout)
                  /\ tsel' = [tsel EXCEPT ![c] = [pc |-> "commit", user |-> u, round |-> round]]
    /\ UNCHANGED <<wRounds, wWagers, cv>>
    /\ UNCHANGED notWagerVars

\* handleTeamSelection lines 76-157: the round is created if none was found,
\* the pending wager is created, and the transaction commits; a conflict on
\* the wager's unique index leaves the existing wager as it is.  withLock's
\* finally releases the lock.
TeamCommit(c) ==
    /\ tsel[c].pc = "commit"
    /\ tsel[c].round = 0 => Len(wRounds) < MaxRounds
    /\ LET u == tsel[c].user
           r == IF tsel[c].round = 0 THEN Len(wRounds) + 1 ELSE tsel[c].round
       IN IF WagerConflicts(wWagers, r, u)
             THEN UNCHANGED <<wRounds, wWagers>>
             ELSE /\ wRounds' = IF tsel[c].round = 0 THEN Append(wRounds, "OPEN") ELSE wRounds
                  /\ wWagers' = WagerInsert(wWagers, r, u)
    /\ locks' = DeleteOwned(locks, BetLock(tsel[c].user), "A")
    /\ tsel' = [tsel EXCEPT ![c] = IdleTeamCall]
    /\ UNCHANGED cv
    /\ UNCHANGED notWagerVars

IdleConv == [pc |-> "idle", user |-> "u1", round |-> 0]

\* The conversational P2P bet, lines 412-432 (and 775-795): find the OPEN
\* round of the game and chat, or create one.
ConvStart(u) ==
    /\ cv.pc = "idle"
    /\ OpenRound(wRounds) = 0 => Len(wRounds) < MaxRounds
    /\ wRounds' = IF OpenRound(wRounds) = 0 THEN Append(wRounds, "OPEN") ELSE wRounds
    /\ cv' = [pc |-> "create", user |-> u, round |-> OpenRound(wRounds')]
    /\ UNCHANGED <<locks, wWagers, tsel>>
    /\ UNCHANGED notWagerVars

\* The conversational P2P bet, lines 435-442 (and 798-805): create the wager;
\* a conflict on the unique index throws and nothing is written.
ConvCreate ==
    /\ cv.pc = "create"
    /\ wWagers' = IF WagerConflicts(wWagers, cv.round, cv.user) THEN wWagers
                  ELSE WagerInsert(wWagers, cv.round, cv.user)
    /\ cv' = IdleConv
    /\ UNCHANGED <<locks, wRounds, tsel>>
    /\ UNCHANGED notWagerVars

\* handleChallengeAccept lines 204-235: a new round with a wager of the
\* challenger and one of the opponent (two different users, challenge.ts:93
\* of the command), in one transaction.
ChallengeAccept ==
    /\ Len(wRounds) < MaxRounds
    /\ LET r == Len(wRounds) + 1
       IN IF WagerConflicts(wWagers, r, "u1") \/ WagerConflicts(wWagers, r, "u2")
             THEN UNCHANGED <<wRounds, wWagers>>
             ELSE /\ wRounds' = Append(wRounds, "OPEN")
                  /\ wWagers' = WagerInsert(WagerInsert(wWagers, r, "u1"), r, "u2")
    /\ UNCHANGED <<locks, tsel, cv>>
    /\ UNCHANGED notWagerVars

\* lockExpiredRounds (houseBet.ts:953-973): the game starts and the OPEN rounds are LOCKED.
WagerRoundsLocked ==
    /\ OpenRound(wRounds) # 0
    /\ wRounds' = [r \in DOMAIN wRounds |-> IF wRounds[r] = "OPEN" THEN "LOCKED" ELSE wRounds[r]]
    /\ UNCHANGED <<locks, wWagers, tsel, cv>>
    /\ UNCHANGED notWagerVars

\* The lease on a bet lock outlives its TTL while its holder is still at work,
\* and the reap of a later acquireLock (locks.ts:25-29) removes it.  Only a
\* lapse that lets the second call in is explored.
BetLeaseLapse ==
    /\ tsel["t1"].pc # "idle"
    /\ tsel["t2"].pc = "idle"
    /\ BetLock(tsel["t1"].user) \in Locked(locks)
    /\ locks' = {row \in locks : row.resourceId # BetLock(tsel["t1"].user)}
    /\ UNCHANGED <<wRounds, wWagers, tsel, cv>>
    /\ UNCHANGED notWagerVars

\* No round has been created for the game in the chat yet.
WagerInit ==
    /\ wRounds = << >>
    /\ wWagers = {}
    /\ tsel = [c \in TeamCalls |-> IdleTeamCall]
    /\ cv = IdleConv

ParkWager ==
    /\ wRounds = << >>
    /\ wWagers = {}
    /\ tsel = << >>
    /\ cv = Null

NextWager ==
    \/ \E c \in TeamCalls, u \in WagerUsers : TeamStart(c, u)
    \/ \E c \in TeamCalls : TeamCommit(c)
    \/ \E u \in WagerUsers : ConvStart(u)
    \/ ConvCreate
    \/ ChallengeAccept
    \/ WagerRoundsLocked
    \/ BetLeaseLapse

-----------------------------------------------------------------------------
(* Specifications *)

\* The lock store with its callers; nothing else moves.
InitLock == LockStoreInit /\ ParkGrade /\ ParkPayout /\ ParkSettle /\ ParkDeposit /\ ParkHouse /\ ParkWager /\ NotifyInit

SpecLock == InitLock /\ [][NextLock]_vars

\* Placing and grading one house bet.
InitGrade == GradeInit /\ LockStoreInit /\ ParkPayout /\ ParkSettle /\ ParkDeposit /\ ParkHouse /\ ParkWager /\ NotifyInit

SpecGrade == InitGrade /\ [][NextGrade]_vars

\* The payout computation of settleRound on one round.
InitPayout == PayoutInit /\ LockStoreInit /\ ParkGrade /\ ParkSettle /\ ParkDeposit /\ ParkHouse /\ ParkWager /\ NotifyInit

SpecPayout == InitPayout /\ [][NextPayout]_vars

\* Settlement, refund, locking and cleanup of one round, with the result feed and the clock.
InitSettle == SettleInit /\ LockStoreInit /\ ParkGrade /\ ParkPayout /\ ParkDeposit /\ ParkHouse /\ ParkWager /\ NotifyInit

SpecSettle == InitSettle /\ [][NextSettle]_vars

\* Deposits into one round's escrow wallet and their reconciliation by both paths.
InitDeposit == DepositInit /\ LockStoreInit /\ ParkGrade /\ ParkPayout /\ ParkSettle /\ ParkHouse /\ ParkWager /\ NotifyInit

SpecDeposit == InitDeposit /\ [][NextDeposit]_vars

\* Settlement of one game's house bets by overlapping settleHouseBets calls.
InitHouse == HouseInit /\ LockStoreInit /\ ParkGrade /\ ParkPayout /\ ParkSettle /\ ParkDeposit /\ ParkWager /\ NotifyInit

SpecHouse == InitHouse /\ [][NextHouse]_vars

\* Placement of wagers on one game in one chat by overlapping calls.
InitWager == WagerInit /\ LockStoreInit /\ ParkGrade /\ ParkPayout /\ ParkSettle /\ ParkDeposit /\ ParkHouse /\ NotifyInit

SpecWager == InitWager /\ [][NextWager]_vars

\* The settlement job of one process (scheduler.ts:238-242: settleCompletedGames,
\* then settleHouseBets) at a time when a game is FINAL with a LOCKED round,
\* its escrow funded, and two ACTIVE house bets of bettors with payout
\* addresses; the job may fire again while its earlier run is at work.
CronInit ==
    /\ \E winner \in Teams : sGame = [status |-> "FINAL", winner |-> Some(winner), clock |-> "started"]
    /\ sRound = [status |-> "LOCKED"]
    /\ \E a1 \in SettleAmounts \ {0}, h1 \in BOOLEAN, t2 \in Teams, a2 \in SettleAmounts :
          sWagers = <<[teamPick |-> "home", amount |-> a1, addr |-> h1, paidOut |-> FALSE],
                      [teamPick |-> t2, amount |-> a2, addr |-> TRUE, paidOut |-> FALSE]>>
    /\ sEscrow = SumAmounts(sWagers, DOMAIN sWagers)
    /\ sRecv = [i \in DOMAIN sWagers |-> << >>]
    /\ sTreasury = << >>
    /\ st = [p \in Settlers |-> IdleSettler]
    /\ rf = IdleRefunder
    /\ lkr = [pc |-> "idle"]
    /\ cl = [pc |-> "idle"]
    /\ sCount = [passes |-> 0, refunds |-> 0, lapses |-> 0]
    /\ hGame = [status |-> "FINAL", homeScore |-> Some(2), awayScore |-> Some(1), winner |-> Some("home")]
    /\ hBets \in [HouseBetIds -> {HouseBetRow(kind, amount, TRUE) : kind \in HouseKinds, amount \in HouseStakes}]
    /\ hWallet = [i \in HouseBetIds |-> hBets[i].amount]
    /\ hDrawn = [i \in HouseBetIds |-> [j \in HouseBetIds |-> 0]]
    /\ hc = [p \in HouseCallers |-> IdleHouseCaller]
    /\ hRuns = {}

NextCron ==
    \/ SettleStart("s1")
    \/ SettleLocked("s1")
    \/ SettleUnlock("s1")
    \/ SettleCompute("s1")
    \/ SettleNoWinners("s1")
    \/ SettlePayout("s1")
    \/ SettleMark("s1")
    \/ HouseStart("h1")
    \/ HouseOwn("h1")
    \/ HousePool("h1")
    \/ HouseMark("h1")
    \/ ChatChange

InitCron == CronInit /\ LockStoreInit /\ ParkGrade /\ ParkPayout /\ ParkDeposit /\ ParkWager /\ NotifyInit

SpecCron == InitCron /\ [][NextCron]_vars

\* PENDING house bets (part_006: createHouseBet, pollHouseBetWallets lines
\* 829-873, cancelExpiredHouseBets lines 746-768).  The section uses the house
\* variables: hBets holds the rows, hWallet the balances of the deposit
\* wallets, hc the place of the poll call and of the expiry call.

\* createHouseBet lines 288-308: the row of a new bet; old says that
\* createdAt is more than thirty minutes back.
PendingBetRow(amount) == [amount |-> amount, status |-> "PENDING", old |-> FALSE]

\* What a user transfers at a time: half of the smaller stake.
BetDepositStep == 5000000

\* The ids of the bets a query with this filter returns.
BetsWhere(Filter(_)) == {i \in HouseBetIds : Filter(hBets[i])}

IsPending(row) == row.status = "PENDING"

\* cancelExpiredHouseBets lines 749-754.
IsExpiredPending(row) == row.status = "PENDING" /\ row.old

\* A transfer into the deposit wallet of bet i.
BetDeposit(i) ==
    /\ hWallet[i] < hBets[i].amount
    /\ hWallet' = [hWallet EXCEPT ![i] = @ + BetDepositStep]
    /\ UNCHANGED <<hGame, hBets, hDrawn, hc, hRuns>>
    /\ UNCHANGED <<notices, notHouseVars>>

\* Thirty minutes pass since bet i was created.
BetAges(i) ==
    /\ ~hBets[i].old
    /\ hBets' = [hBets EXCEPT ![i].old = TRUE]
    /\ UNCHANGED <<hGame, hWallet, hDrawn, hc, hRuns>>
    /\ UNCHANGED <<notices, notHouseVars>>

\* pollHouseBetWallets lines 830-842: the PENDING bets are read; without any
\* the call returns.
BetPollQuery ==
    /\ hc.poll.pc = "idle"
    /\ BetsWhere(IsPending) # {}
    /\ hc' = [hc EXCEPT !.poll = [pc |-> "wallet", ids |-> BetsWhere(IsPending)]]
    /\ UNCHANGED <<hGame, hBets, hWallet, hDrawn, hRuns>>
    /\ UNCHANGED <<notices, notHouseVars>>

\* pollHouseBetWallets lines 846-873, one bet of the list read: the balance
\* of its wallet is read, and if it is at least the stake the row is updated
\* to ACTIVE, by id alone; after the last bet the call returns.
BetPollWallet ==
    /\ hc.poll.pc = "wallet"
    /\ LET i == CHOOSE j \in hc.poll.ids : \A k \in hc.poll.ids : j <= k
           rest == hc.poll.ids \ {i}
       IN /\ hBets' = IF hWallet[i] >= hBets[i].amount
                         THEN [hBets EXCEPT ![i].status = "ACTIVE"] ELSE hBets
          /\ hc' = [hc EXCEPT !.poll = IF rest = {} THEN [pc |-> "idle", ids |-> {}]
                                        ELSE [pc |-> "wallet", ids |-> rest]]
    /\ UNCHANGED <<hGame, hWallet, hDrawn, hRuns>>
    /\ UNCHANGED <<notices, notHouseVars>>

\* cancelExpiredHouseBets lines 747-756: the PENDING bets older than thirty
\* minutes are read; without any the call returns.
ExpiryQuery ==
    /\ hc.expiry.pc = "idle"
    /\ BetsWhere(IsExpiredPending) # {}
    /\ hc' = [hc EXCEPT !.expiry = [pc |-> "update", ids |-> BetsWhere(IsExpiredPending)]]
    /\ UNCHANGED <<hGame, hBets, hWallet, hDrawn, hRuns>>
    /\ UNCHANGED <<notices, notHouseVars>>

\* cancelExpiredHouseBets lines 757-764: updateMany sets the rows read to
\* CANCELLED, by id alone.
ExpiryUpdate ==
    /\ hc.expiry.pc = "update"
    /\ hBets' = [i \in HouseBetIds |->
                    IF i \in hc.expiry.ids THEN [hBets[i] EXCEPT !.status = "CANCELLED"] ELSE hBets[i]]
    /\ hc' = [hc EXCEPT !.expiry = [pc |-> "idle", ids |-> {}]]
    /\ UNCHANGED <<hGame, hWallet, hDrawn, hRuns>>
    /\ UNCHANGED <<notices, notHouseVars>>

\* Bets just placed, nothing deposited yet.
PendingInit ==
    /\ hGame = [status |-> "SCHEDULED", homeScore |-> Null, awayScore |-> Null, winner |-> Null]
    /\ hBets \in [HouseBetIds -> {PendingBetRow(amount) : amount \in HouseStakes}]
    /\ hWallet = [i \in HouseBetIds |-> 0]
    /\ hDrawn = [i \in HouseBetIds |-> [j \in HouseBetIds |-> 0]]
    /\ hc = [poll |-> [pc |-> "idle", ids |-> {}], expiry |-> [pc |-> "idle", ids |-> {}]]
    /\ hRuns = {}

NextPending ==
    \/ \E i \in HouseBetIds : BetDeposit(i)
    \/ \E i \in HouseBetIds : BetAges(i)
    \/ BetPollQuery
    \/ BetPollWallet
    \/ ExpiryQuery
    \/ ExpiryUpdate

InitPending == PendingInit /\ LockStoreInit /\ ParkGrade /\ ParkPayout /\ ParkSettle /\ ParkDeposit /\ ParkWager /\ NotifyInit

SpecPending == InitPending /\ [][NextPending]_vars

\* The settlement pass of settleCompletedGames, fired again and again by the
\* cron job, on a LOCKED round of a game that is
\* FINAL with a winner and stays so.
RetryInit ==
    /\ \E winner \in Teams : sGame = [status |-> "FINAL", winner |-> Some(winner), clock |-> "started"]
    /\ sRound = [status |-> "LOCKED"]
    /\ \E a1 \in SettleAmounts \ {0}, h1 \in BOOLEAN, t2 \in Teams, a2 \in SettleAmounts :
          sWagers = <<[teamPick |-> "home", amount |-> a1, addr |-> h1, paidOut |-> FALSE],
                      [teamPick |-> t2, amount |-> a2, addr |-> TRUE, paidOut |-> FALSE]>>
    /\ sEscrow \in {0, DustBalance, SumAmounts(sWagers, DOMAIN sWagers)}
    /\ sRecv = [i \in DOMAIN sWagers |-> << >>]
    /\ sTreasury = << >>
    /\ st = [p \in Settlers |-> IdleSettler]
    /\ rf = IdleRefunder
    /\ lkr = [pc |-> "idle"]
    /\ cl = [pc |-> "idle"]
    /\ sCount = [passes |-> 0, refunds |-> 0, lapses |-> 0]

\* The chain as the claim supposes it: sends may fail during the earlier
\* passes, and from pass MaxPasses on a send the escrow can cover is carried
\* out.  RetryCompute is SettleCompute, and RetryPayout is SettlePayout, on
\* such a chain.
RetryCompute(p) ==
    /\ SettleCompute(p)
    /\ sCount.passes = MaxPasses => st'[p].pc # "idle"

RetryPayout(p) ==
    /\ SettlePayout(p)
    /\ sCount.passes = MaxPasses => ~(st'[p].tried # st[p].tried /\ sEscrow' = sEscrow)

NextRetry ==
    \/ SettleAgain("s1")
    \/ SettleLocked("s1")
    \/ SettleUnlock("s1")
    \/ RetryCompute("s1")
    \/ SettleNoWinners("s1")
    \/ RetryPayout("s1")
    \/ SettleMark("s1")

\* The cron job keeps firing (scheduler.ts:238-242) and every started call
\* runs on: weak fairness of each step.
RetryFairness ==
    /\ WF_vars(SettleAgain("s1"))
    /\ WF_vars(SettleLocked("s1"))
    /\ WF_vars(SettleUnlock("s1"))
    /\ WF_vars(RetryCompute("s1"))
    /\ WF_vars(SettleNoWinners("s1"))
    /\ WF_vars(RetryPayout("s1"))
    /\ WF_vars(SettleMark("s1"))

InitRetry == RetryInit /\ LockStoreInit /\ ParkGrade /\ ParkPayout /\ ParkDeposit /\ ParkHouse /\ ParkWager /\ NotifyInit

SpecRetry == InitRetry /\ [][NextRetry]_vars /\ RetryFairness

-----------------------------------------------------------------------------
(* Claims about the lock store *)

\* The withLock bodies executing on resource r (a crashed process executes nothing).
Executing(r) == {c \in LockCalls : lkPc[c] = "body" /\ lkRes[c] = r /\ lkInst[c] \notin dead}

\* C1 (as stated): for every resource R, at most one function body passed to
\* withLock(R, ...) is executing at any time.
C1_AtMostOneBody == \A r \in LockResources : Cardinality(Executing(r)) <= 1

\* C1 (amended): for every resource R, at most one withLock(R, ...) body is
\* executing at any time, as long as no lease on R has been reaped (its TTL
\* elapsed) while the call that created it was still running.
C1_AtMostOneBodyWithinTtl == \A r \in LockResources : r \notin lkReapedLive => Cardinality(Executing(r)) <= 1

\* C1 witness: one call executes its body on R while a second call on R is
\* about to attempt its insert, and no lease on R was ever reaped from a running call.
C1_Witness == \E c, d \in LockCalls : /\ c # d
                                      /\ lkPc[c] = "body" /\ lkPc[d] = "create"
                                      /\ lkRes[c] = lkRes[d] /\ lkInst[c] # lkInst[d]
                                      /\ lkInst[c] \notin dead
                                      /\ lkRes[c] \notin lkReapedLive

\* C2: a lease whose expiresAt has passed is acquirable even if it was never
\* released: the reap step of acquireLock leaves no expired lease in the
\* store, and an insert that finds no row for R returns true and leaves the
\* caller's own lease for R in the store.
C2_ExpiredLeaseAcquirable == [][\A c \in LockCalls :
        /\ (lkPc[c] = "reap" /\ lkPc'[c] = "create")
              => (\A row \in locks' : ~(row.expiresAt < now))
        /\ (lkPc[c] = "create" /\ lkPc'[c] # "create" /\ lkRes[c] \notin Locked(locks))
              => /\ lkPc'[c] = "body"
                 /\ [resourceId |-> lkRes[c], lockedBy |-> lkInst[c], expiresAt |-> lkExp[c], call |-> c]
                        \in locks']_vars

\* C2 witness: a call holds the lease on R while a call of a crashed
\* instance, which acquired R and never released it, is still stopped inside withLock.
C2_Witness == \E c, d \in LockCalls : /\ c # d
                                      /\ lkPc[c] = "body" /\ lkInst[c] \notin dead
                                      /\ Running(d) /\ lkInst[d] \in dead
                                      /\ lkRes[c] = lkRes[d]
                                      /\ \E row \in locks : row.resourceId = lkRes[c] /\ row.call = c

\* The live (non-expired) leases on resource r.
LiveLeases(r) == {row \in locks : row.resourceId = r /\ ~(row.expiresAt < now)}

\* C11: in every reachable state of the lock store there is at most one live
\* (non-expired) lease per resourceId.
C11_OneLiveLeasePerResource == \A r \in LockResources : Cardinality(LiveLeases(r)) <= 1

\* C11 witness: a call of one instance is about to attempt its insert for R
\* while a live lease on R, created by another call of the same instance, is in the store.
C11_Witness == \E c \in LockCalls : \E row \in LiveLeases(lkRes[c]) :
                  /\ lkPc[c] = "create"
                  /\ row.call # c
                  /\ row.lockedBy = lkInst[c]

\* C14 (as stated): the release at the end of a withLock call removes the
\* lease this call acquired, and removes no lease that another call, still
\* inside withLock, holds.
C14_ReleaseOnlyOwnLease == [][\A c \in LockCalls :
        (lkPc[c] = "release" /\ lkPc'[c] = "returned")
            => /\ \A row \in locks' : row.call # c
               /\ \A row \in locks \ locks' : row.call # c => ~Running(row.call)]_vars

-----------------------------------------------------------------------------
\* C15: while a live lease for R exists, acquireLock(R) leaves that lease
\* in place (its reap does not delete it, its create fails and changes
\* nothing) and withLock(R, fn) returns null without running fn; a call
\* that did run fn never returns null, so the two cannot be confused.
C15_LiveLeaseSkipsCall ==
    [][\A c \in LockCalls :
        /\ (lkPc[c] = "reap" /\ lkPc'[c] = "create")
              => \A row \in LiveLeases(lkRes[c]) : row \in locks'
        /\ (lkPc[c] = "create" /\ lkPc'[c] # "create" /\ LiveLeases(lkRes[c]) # {})
              => /\ lkPc'[c] = "returned"
                 /\ lkRet'[c] = Null
                 /\ locks' = locks
        /\ (lkPc[c] = "release" /\ lkPc'[c] = "returned") => lkRet'[c] # Null]_vars

\* A call was sent back with null while the only lease of the table is live and its holder is executing fn.
C15_Witness ==
    \E c, d \in LockCalls :
        /\ lkPc[c] = "returned" /\ lkRet[c] = Null
        /\ lkPc[d] = "body" /\ dead = {}
        /\ locks = LiveLeases(lkRes[d])
        /\ \E row \in locks : row.call = d

(***************************************************************************)
(* Claims about house-bet grading *)

\* The outcome the claim prescribes for a SPREAD bet: the line is added to the
\* picked side's score and the sum is compared with the opponent's raw score.
SpreadAsClaimed(pick, line2, hs, as) ==
    LET picked == IF pick = "home" THEN 2 * hs ELSE 2 * as
        opponent == IF pick = "home" THEN 2 * as ELSE 2 * hs
    IN IF picked + line2 > opponent THEN "WIN"
       ELSE IF picked + line2 = opponent THEN "PUSH" ELSE "LOSS"

\* A SPREAD bet with a line has been graded on a game with both scores.
SpreadGraded == /\ gResult # "UNGRADED"
                /\ ~IsNull(gBet) /\ Val(gBet).betType = "SPREAD" /\ ~IsNull(Val(gBet).line)
                /\ ~IsNull(gGame.homeScore) /\ ~IsNull(gGame.awayScore)

\* C8 (as stated): SPREAD grading, for a home pick and for an away pick alike,
\* adds the bet's line to the picked side's score and compares the sum with
\* the opponent's raw score: greater is WIN, equal is PUSH, less is LOSS.
C8_SpreadGrading == SpreadGraded =>
    gResult = SpreadAsClaimed(Val(gBet).pick, Val(Val(gBet).line), Val(gGame.homeScore), Val(gGame.awayScore))

\* The game of the graded bet has both scores.
Scored == ~IsNull(gGame.homeScore) /\ ~IsNull(gGame.awayScore)

\* The outcome the claim prescribes for a total compared with a line.
TotalAsClaimed(betType, total2, line2) ==
    IF total2 = line2 THEN "PUSH"
    ELSE IF (betType = "TOTAL_OVER" /\ total2 > line2) \/ (betType = "TOTAL_UNDER" /\ total2 < line2)
            THEN "WIN" ELSE "LOSS"

\* C32: a MONEYLINE bet is a WIN exactly if the recorded winner is the pick
\* and a LOSS otherwise; TOTAL_OVER is a WIN exactly if home + away exceeds
\* the line, TOTAL_UNDER exactly if it is below, and a total equal to the line
\* is a PUSH; a bet whose game lacks a score, or a SPREAD or TOTAL bet without
\* a line, gets no result in the pass.
C32_MoneylineAndTotals ==
    (gResult # "UNGRADED" /\ ~IsNull(gBet)) =>
        LET bet == Val(gBet)
        IN IF ~Scored \/ (bet.betType # "MONEYLINE" /\ IsNull(bet.line))
              THEN gResult = "NONE"
              ELSE /\ bet.betType = "MONEYLINE"
                        => gResult = (IF gGame.winner = Some(bet.pick) THEN "WIN" ELSE "LOSS")
                   /\ bet.betType \in {"TOTAL_OVER", "TOTAL_UNDER"}
                        => gResult = TotalAsClaimed(bet.betType,
                                                    2 * (Val(gGame.homeScore) + Val(gGame.awayScore)),
                                                    Val(bet.line))

\* A total bet was graded a PUSH on a total equal to its line.
C32_Witness ==
    /\ gResult = "PUSH"
    /\ ~IsNull(gBet)
    /\ Val(gBet).betType \in {"TOTAL_OVER", "TOTAL_UNDER"}

-----------------------------------------------------------------------------
(* Claims about the payout computation *)

\* The wagers for which the loop has computed a payout.
Computed == {i \in DOMAIN pPayouts : ~IsNull(pPayouts[i])}

RECURSIVE SumPayouts(_)
SumPayouts(S) ==
    IF S = {} THEN 0
    ELSE LET i == CHOOSE x \in S : TRUE
         IN Val(pPayouts[i]) + SumPayouts(S \ {i})

\* C5: with winning wagers summing to W > 0 and pot-after-fee P, each computed
\* payout p of a wager of amount a is floor(a * P / W), that is
\* p * W <= a * P < (p + 1) * W; the computed payouts sum to at most P; and no
\* payout is computed for a wager on the losing side.
C5_ProportionalPayout ==
    LET W == TotalWinningAmount(pWagers, pWinner)
    IN Computed # {} =>
          /\ W > 0
          /\ ~IsNull(pPot)
          /\ \A i \in Computed :
                /\ pWagers[i].teamPick = pWinner
                /\ Val(pPayouts[i]) * W <= pWagers[i].amount * Val(pPot)
                /\ pWagers[i].amount * Val(pPot) < (Val(pPayouts[i]) + 1) * W
          /\ SumPayouts(Computed) <= Val(pPot)
          /\ \A i \in DOMAIN pWagers : pWagers[i].teamPick # pWinner => IsNull(pPayouts[i])

\* C5 witness: the loop is through a round with two funded winners and a
\* funded loser, where the division is not exact.
C5_Witness ==
    /\ pPc = "done"
    /\ Cardinality(Computed) = 2
    /\ \E i \in DOMAIN pWagers : pWagers[i].teamPick # pWinner /\ pWagers[i].amount > 0
    /\ \E i \in Computed : Val(pPayouts[i]) * TotalWinningAmount(pWagers, pWinner) < pWagers[i].amount * Val(pPot)

\* The documented example: home wagers of 100 and 200, an away wager of 150, balance 450, home wins.
Example450 ==
    /\ pBalance = 450
    /\ pWinner = "home"
    /\ pWagers = <<[teamPick |-> "home", amount |-> 100, addr |-> TRUE],
                   [teamPick |-> "home", amount |-> 200, addr |-> TRUE],
                   [teamPick |-> "away", amount |-> 150, addr |-> TRUE]>>

\* C6: for a live balance B > 0, fee = floor(B * 1%), that is
\* fee * 10000 <= B * 100 < (fee + 1) * 10000, and remainingPot = B - fee; in
\* the documented example fee = 4, remainingPot = 446, the home wagers'
\* payouts are 148 and 297 and the away wager gets none.
C6_FeeAndExample ==
    /\ (pBalance > 0 /\ ~IsNull(pFee)) =>
          /\ Val(pFee) * 10000 <= pBalance * 100
          /\ pBalance * 100 < (Val(pFee) + 1) * 10000
          /\ Val(pPot) = pBalance - Val(pFee)
          /\ Val(pFee) + Val(pPot) = pBalance
    /\ (Example450 /\ ~IsNull(pFee)) => (Val(pFee) = 4 /\ Val(pPot) = 446)
    /\ (Example450 /\ pPc = "done") => pPayouts = <<Some(148), Some(297), Null>>

\* C6 witness: the computation is through the documented example.
C6_Witness == Example450 /\ pPc = "done" /\ ~IsNull(pFee) /\ Computed = {1, 2}

\* C37 (as stated, for a positive balance): without winning wagers, or with
\* winning amounts that sum to zero, the whole balance goes to the treasury
\* and no wager gets a payout.
C37_NoWinnersSweep ==
    (pPc = "done" /\ pWagers # << >> /\ NoWinners(pWagers, pWinner))
        => /\ pSwept = Some(pBalance)
           /\ \A i \in DOMAIN pPayouts : IsNull(pPayouts[i])

-----------------------------------------------------------------------------
(* Claims about round settlement and refund *)

\* The records and balances a settlement or refund call can change.
settleData == <<sRound, sWagers, sEscrow, sRecv, sTreasury>>

\* C4: settlement of a round whose status is already SETTLED sends no
\* transfer and changes no round or wager record: settleCompletedGames does
\* not pick the round up, and a settleRound call that finds the round SETTLED
\* at its re-check leaves the records and balances as they are, in that step
\* and in the one that ends the call.
C4_SettledRoundUntouched == [][\A p \in Settlers :
        /\ (st[p].pc = "idle" /\ sRound.status = "SETTLED") => st'[p] = st[p]
        /\ (st[p].pc = "round" /\ st'[p] # st[p] /\ sRound.status = "SETTLED")
              => /\ settleData' = settleData
                 /\ st'[p].pc \in {"idle", "unlock"}
                 /\ st'[p].pc = "unlock" => st'[p].skipped
        /\ (st[p].pc = "unlock" /\ st[p].skipped /\ st'[p] # st[p])
              => /\ settleData' = settleData
                 /\ st'[p].pc = "idle"]_vars

\* C4 witness: a settleRound call has found, at its re-check, the round
\* already SETTLED by another call's payouts (the escrow is not empty, the
\* game never was cancelled).
C4_Witness == \E p \in Settlers :
    /\ st[p].pc = "unlock" /\ st[p].skipped
    /\ sRound.status = "SETTLED"
    /\ sGame.status = "FINAL"
    /\ sEscrow > 0
    /\ \E i \in DOMAIN sRecv : sRecv[i] # << >>

\* The refunds among the transfers a wager's user has received.
Refunds(i) == {k \in DOMAIN sRecv[i] : sRecv[i][k].kind = "refund"}

\* C9 (as stated): when refundRound has gone through a round that was OPEN or
\* LOCKED, every wager with a non-zero amount that was not marked paidOut has
\* been sent exactly its amount, a wager that was marked paidOut has been
\* sent no refund, and the round is CANCELLED.
C9_RefundPath == [][(rf.pc = "loop" /\ rf'.pc = "idle") =>
        /\ sRound'.status = "CANCELLED"
        /\ \A i \in DOMAIN sWagers :
              IF sWagers[i].amount # 0 /\ ~rf.paid[i]
                 THEN \E k \in Refunds(i) : sRecv[i][k].amount = sWagers[i].amount
                 ELSE rf.paid[i] => Refunds(i) = {}]_vars

\* C10 (as stated): once the round's status is SETTLED or CANCELLED, no step
\* of settleRound, refundRound, lockExpiredRounds or cleanupStaleGames changes it.
C10_TerminalStatus == [][sRound.status \in {"SETTLED", "CANCELLED"} => sRound'.status = sRound.status]_vars

\* The payouts among the transfers a wager's user has received.
Payouts(i) == {k \in DOMAIN sRecv[i] : sRecv[i][k].kind = "payout"}

\* C28 (as stated): the escrow of the round never sends both a settlement
\* payout and a refund transfer, whatever the interleaving of settleRound and
\* refundRound.
C28_NoSettleAndRefund ==
    ~(/\ \E i \in DOMAIN sRecv : Payouts(i) # {}
      /\ \E i \in DOMAIN sRecv : Refunds(i) # {})

\* The winning wagers of a pass that have a payout address and a payout
\* above the cost of a transfer (settlement.ts:445-463).
Payable(p) ==
    {i \in DOMAIN sWagers :
        /\ sWagers[i].teamPick = st[p].winner
        /\ sWagers[i].addr
        /\ Payout(sWagers, i, st[p].winner, st[p].bal) > TxCost}

\* The winning wagers of a pass.
Winning(p) == {i \in DOMAIN sWagers : sWagers[i].teamPick = st[p].winner}

\* The step is the end of the payout loop of pass p.
EndsLoop(p) == st[p].pc = "loop" /\ st'[p].pc = "idle"

C31_FailedRefundKeepsStatus ==
    [][(/\ rf.pc = "loop"
        /\ rf'.pc = "idle"
        /\ \E i \in DOMAIN sWagers :
              /\ ~rf.paid[i]
              /\ sWagers[i].addr
              /\ sWagers[i].amount > TxCost
              /\ ~sWagers[i].paidOut)
       => sRound'.status = sRound.status]_vars

\* C34 (as stated): whenever a transfer leaves the round's escrow (fee,
\* payout, balance without winners, refund), the round's lock is held.
C34_SendsUnderRoundLock ==
    [][sEscrow' # sEscrow => RoundLock \in Locked(locks)]_vars

\* C35 (as stated): in a CANCELLED round, whatever cancelled it, every wager
\* with a non-zero amount has been paid or has been sent its amount back.
C35_CancelledMeansRefunded ==
    sRound.status = "CANCELLED" =>
        \A i \in DOMAIN sWagers :
            sWagers[i].amount # 0 =>
                \/ Payouts(i) # {}
                \/ \E k \in Refunds(i) : sRecv[i][k].amount = sWagers[i].amount

\* C16 (as stated): over any sequence of settlement passes on a round, a
\* pass after a partial failure that left the round LOCKED included, a wager
\* whose paidOut flag is already set is skipped by the payout loop, and no
\* wager is sent more than one payout transfer.
C16_PaidOutSkipped ==
    [][/\ \A p \in Settlers :
            (st[p].pc = "loop" /\ st[p].idx \in DOMAIN sWagers /\ sWagers[st[p].idx].paidOut)
                => sRecv'[st[p].idx] = sRecv[st[p].idx]
       /\ \A i \in DOMAIN sWagers : Cardinality(Payouts(i)') <= 1]_vars

-----------------------------------------------------------------------------
(* Claims about deposit reconciliation *)

\* C3 (as stated): a transfer of at least the minimum bet that both the event
\* path and the poll path have processed has led to exactly one wager amount
\* update and has exactly one ledger row, when the round had a pending wager for it.
C3_OneUpdateOneRow == \A sig \in DOMAIN dChain :
    (dChain[sig] >= MinBetLamports /\ dDone[sig] = {"event", "poll"} /\ dWrites[sig] >= 1)
        => (dWrites[sig] = 1 /\ isTransactionProcessed(dLedger, sig))

\* C12: each transaction signature appears at most once in the
\* ProcessedTransaction ledger, and the ledger is append-only: every step
\* leaves each existing row in place, unchanged.
C12_LedgerUniqueAppendOnly == [][/\ \A r1, r2 \in dLedger' : r1.signature = r2.signature => r1 = r2
                                 /\ dLedger \subseteq dLedger']_vars

\* C12 witness: a poll pass is about to create the ledger row of a signature
\* that an overlapping pass has recorded in the meantime.
C12_Witness == \E p \in Pollers : /\ pl[p].pc \in {"attribute", "unattributed"}
                                  /\ isTransactionProcessed(dLedger, pl[p].next)

\* C22 (as stated): in every reachable state, a transfer for which a wager
\* has been given its amount also has its ledger row, and the round's
\* totalPot holds the amounts of the wagers: none of the three writes of an
\* attribution is there without the others, whichever path made it.
C22_AttributionAtomic ==
    /\ \A sig \in DOMAIN dChain : dWrites[sig] >= 1 => isTransactionProcessed(dLedger, sig)
    /\ dRound.totalPot >= SumAmounts(dWagers, DOMAIN dWagers)

\* C23: a writer whose ledger insert for a signature meets the row another
\* writer has created treats the transfer as handled: its step changes no
\* wager, not the round's totalPot and not the ledger, and the writer goes
\* on with the next transfer of its loop instead of failing.
C23_ConflictIsHandled ==
    [][\A p \in Pollers :
          (pl[p].pc \in {"attribute", "unattributed"} /\ pl'[p] # pl[p]
              /\ isTransactionProcessed(dLedger, pl[p].next)
              /\ (pl[p].pc = "attribute" => PendingWagers(dWagers) # {}))
          => /\ dWagers' = dWagers
             /\ dRound' = dRound
             /\ dLedger' = dLedger
             /\ pl'[p].pc = "tx" /\ pl'[p].next = pl[p].next - 1]_vars

\* C23 witness: a poll pass has met the ledger row of another pass while a
\* wager was pending, and is back in its loop.
C23_Witness == \E p \in Pollers :
    /\ pl[p].pc = "tx" /\ pl[p].hit # 0
    /\ PendingWagers(dWagers) # {}
    /\ dWrites[pl[p].hit] = 1

\* C24 (as stated): the event path and the poll path process deposits of
\* the escrow wallet under one lock, so that in no reachable state a
\* processWalletDeposit call and a pollWalletDeposits call are both inside
\* their deposit processing for the wallet.
C24_PathsExcludeEachOther ==
    \A p \in Pollers : ~(ev.pc # "idle" /\ pl[p].pc # "idle")

\* C25 (as stated): on either path, a step that gives a wager its amount or
\* adds to the round's totalPot finds the round OPEN at that moment, also
\* when lockExpiredRounds has moved the round on in the meantime.
C25_WritesOnlyWhileOpen ==
    [][(dWagers' # dWagers \/ dRound'.totalPot # dRound.totalPot) => dRound.status = "OPEN"]_vars

\* C26 (as stated): the processing of a transfer below the minimum bet, by
\* either path, changes no wager and not the round's totalPot; and every
\* amount a wager has been given lies between the minimum and the maximum.
C26_DepositBounds ==
    [][/\ (ev.pc = "write" /\ ev'.pc = "idle" /\ dChain[ev.sig] < MinBetLamports)
              => (dWagers' = dWagers /\ dRound' = dRound)
       /\ \A p \in Pollers :
              (pl[p].pc # "idle" /\ pl[p].next >= 1 /\ pl'[p] # pl[p]
                  /\ dChain[pl[p].next] < MinBetLamports)
              => (dWagers' = dWagers /\ dRound' = dRound)
       /\ \A i \in DOMAIN dWagers' :
              \/ dWagers'[i].amount = 0
              \/ (MinBetLamports <= dWagers'[i].amount /\ dWagers'[i].amount <= MaxP2pLamports)]_vars

\* C27 (as stated): when a valid deposit is processed for an OPEN round that
\* has no pending wager, the round's totalPot grows, on the event path as on
\* the poll path.
C27_UnattributedDepositKept ==
    [][/\ \A m \in dNotify \ dNotify' :
              (/\ ev.pc = "idle"
               /\ CanAcquire(locks, DepositLock)
               /\ dRound.status = "OPEN"
               /\ PendingWagers(dWagers) = {}
               /\ m.newBalance - (dRound.totalPot + RentExemptMin) >= MinBetLamports)
              => dRound'.totalPot > dRound.totalPot
       /\ \A p \in Pollers :
              (/\ pl[p].pc = "unattributed"
               /\ pl'[p] # pl[p]
               /\ ~isTransactionProcessed(dLedger, pl[p].next))
              => dRound'.totalPot = dRound.totalPot + pl[p].amount]_vars

\* What totalPot holds beyond the wagers' amounts.
Unattributed(round, wagers) == round.totalPot - SumAmounts(wagers, DOMAIN wagers)

\* C38 (as stated): totalPot is never below the sum of the wagers' amounts,
\* and exceeds it only by what the poll path recorded as unattributed
\* deposits: no other step changes the difference, which is zero at first.
C38_PotCoversWagers ==
    [][/\ Unattributed(dRound', dWagers') >= 0
       /\ \/ Unattributed(dRound', dWagers') = Unattributed(dRound, dWagers)
          \/ \E p \in Pollers : pl[p].pc = "unattributed" /\ pl'[p] # pl[p]]_vars

\* C39 (as stated): a wager whose amount has been set from 0 to a positive
\* value keeps its amount and its transaction reference in every later step
\* of either path.
C39_AttributedOnce ==
    [][\A i \in DOMAIN dWagers :
          dWagers[i].amount > 0 => (i \in DOMAIN dWagers' /\ dWagers'[i] = dWagers[i])]_vars

-----------------------------------------------------------------------------
(* Claims about house-bet settlement *)

\* The batches a settleHouseBets call went through to its end that consisted
\* of the winning bet w and the losing bet l, the loser's deposit covering
\* the winner's payout.
PooledPair(w, l) ==
    /\ {w, l} \in hRuns
    /\ w # l
    /\ hBets[w].result = Some("WIN")
    /\ hBets[l].result = Some("LOSS")
    /\ hBets[l].amount >= hBets[w].potentialWin

\* C7 (as stated): when settleHouseBets has gone through a batch of one WIN
\* bet needing payout N and one LOSS bet whose escrow held at least N, it has
\* drawn from the loser's wallet exactly N minus the amount paid from the
\* winner's own wallet, both bets are SETTLED, and no outstanding shortfall is
\* recorded on the winner's bet.
C7_PoolingExact == \A w, l \in HouseBetIds :
    PooledPair(w, l) =>
        /\ hDrawn[l][w] = hBets[w].potentialWin - hDrawn[w][w]
        /\ hBets[w].status = "SETTLED" /\ hBets[l].status = "SETTLED"
        /\ hBets[w].payoutTx.owes = 0

\* What the user of bet `to` has received from the wallets in S.
RECURSIVE PaidFrom(_, _)
PaidFrom(S, to) ==
    IF S = {} THEN 0
    ELSE LET j == CHOOSE x \in S : TRUE
         IN hDrawn[j][to] + PaidFrom(S \ {j}, to)

\* C17 (as stated): for every bet that settleHouseBets has marked SETTLED
\* with payoutNeeded > 0, the amount paid to the bettor plus the treasury
\* obligation recorded on the bet equals payoutNeeded.
C17_ShortfallRecorded == \A i \in HouseBetIds :
    (hBets[i].status = "SETTLED" /\ PayoutNeeded(hBets[i], Val(hBets[i].result)) > 0)
        => PaidFrom(HouseBetIds, i) + hBets[i].payoutTx.owes = PayoutNeeded(hBets[i], Val(hBets[i].result))

\* The sum of f over the wallets in S.
RECURSIVE SumWallets(_, _)
SumWallets(f, S) ==
    IF S = {} THEN 0
    ELSE LET j == CHOOSE x \in S : TRUE
         IN f[j] + SumWallets(f, S \ {j})

C19_ClosedExactlyOnce ==
    [][\A i \in HouseBetIds : hBets[i].status = "SETTLED" =>
          /\ \A j \in HouseBetIds : hDrawn'[j][i] = hDrawn[j][i]
          /\ \A p \in HouseCallers :
                (hc[p].pc = "mark" /\ hc[p].batch[hc[p].idx].id = i) => hc'[p] = hc[p]]_vars

\* C33 (as stated): a bet becomes ACTIVE only from PENDING and with a wallet
\* balance of at least its stake; a bet becomes CANCELLED by expiry only from
\* PENDING; so no bet goes from ACTIVE to CANCELLED or from CANCELLED to ACTIVE.
C33_PendingLifecycle ==
    [][\A i \in HouseBetIds :
          /\ (hBets'[i].status = "ACTIVE" /\ hBets[i].status # "ACTIVE")
                => (hBets[i].status = "PENDING" /\ hWallet[i] >= hBets[i].amount)
          /\ (hBets'[i].status = "CANCELLED" /\ hBets[i].status # "CANCELLED")
                => hBets[i].status = "PENDING"]_vars

\* The ids of the bets graded LOSS in the batch of call p.
BatchLosers(p) == {hc[p].batch[k].id : k \in {j \in DOMAIN hc[p].batch : hc[p].batch[j].result = "LOSS"}}

\* C36: a transfer to a bet's user from the wallet of another bet is made by
\* a call that is settling the receiving bet, and the wallet is that of a
\* bet graded LOSS in the batch of that call.
C36_DrawsFromLosersOnly ==
    [][\A from, to \in HouseBetIds :
          (from # to /\ hDrawn'[from][to] > hDrawn[from][to])
          => \E p \in HouseCallers :
                /\ hc[p].pc = "pool"
                /\ hc[p].batch[hc[p].idx].id = to
                /\ from \in BatchLosers(p)
                /\ determineHouseBetResult(hBets[from], hGame) = "LOSS"]_vars

\* The user of a winning bet, now SETTLED, has received a transfer from the
\* wallet of a losing bet.
C36_Witness ==
    \E from, to \in HouseBetIds :
        /\ from # to
        /\ hDrawn[from][to] > 0
        /\ hBets[to].status = "SETTLED"
        /\ hBets[to].result = Some("WIN")

-----------------------------------------------------------------------------
(* Claims about the settlement job *)

\* C20: a send that throws inside one wager's or one bet's payout does not
\* end the batch: whatever a step of the payout loop of settleRound does with
\* a wager, the loop goes on to the next wager and ends only behind the last
\* one; whatever settleHouseBetWithPool does with a bet, the call stays with
\* that bet until it is marked, goes on to the next bet of the batch, and
\* ends only when the last bet is marked.
C20_FailureDoesNotAbort ==
    [][/\ \A p \in Settlers :
            (st[p].pc = "loop" /\ st'[p] # st[p]) =>
                IF st[p].idx \in DOMAIN sWagers
                   THEN st'[p].pc = "loop" /\ st'[p].idx = st[p].idx + 1
                   ELSE st'[p].pc = "idle"
       /\ \A p \in HouseCallers :
            (hc[p].pc \in {"own", "pool", "mark"} /\ hc'[p] # hc[p]) =>
                IF hc[p].pc # "mark"
                   THEN /\ hc'[p].pc \in {"pool", "mark"}
                        /\ hc'[p].idx = hc[p].idx /\ hc'[p].batch = hc[p].batch
                   ELSE IF hc[p].idx = Len(hc[p].batch)
                           THEN hc'[p].pc = "idle"
                           ELSE /\ hc'[p].pc = "own"
                                /\ hc'[p].idx = hc[p].idx + 1 /\ hc'[p].batch = hc[p].batch]_vars

\* C20 witness: the send to the first winning wager threw and the second
\* winning wager has been paid in the same pass; the sends for the first
\* winning bet threw, the bet is closed with the whole payout owed, and the
\* second winning bet has been paid in the same batch.
C20_Witness ==
    /\ st["s1"].pc = "loop" /\ st["s1"].idx = 3 /\ ~st["s1"].ok
    /\ sCount.passes = 1
    /\ sRecv[1] = << >> /\ sRecv[2] # << >>
    /\ hc["h1"].pc # "idle" /\ hc["h1"].idx = 2
    /\ hBets[1].status = "SETTLED" /\ hBets[1].result = Some("WIN")
    /\ hBets[1].payoutTx.owes = hBets[1].potentialWin
    /\ hDrawn[2][2] > 0

\* C21: a settlement message that throws is not a settlement failure: the
\* round or house bet it was about has been marked SETTLED and stays so, the
\* settleRound call returns as after a delivered message, and the
\* settleHouseBets call goes on with the next bet of its batch.
C21_NotifyFailureNotPropagated ==
    [][/\ \A n \in notices' : ~n.sent =>
              IF n.about[1] = "round" THEN sRound'.status = "SETTLED"
                                      ELSE hBets'[n.about[2]].status = "SETTLED"
       /\ \A p \in Settlers :
              (st[p].pc = "loop" /\ st[p].idx \notin DOMAIN sWagers /\ st[p].ok
                  /\ st'[p] # st[p] /\ chat = "down")
              => /\ sRound'.status = "SETTLED"
                 /\ st'[p] = IdleSettler
                 /\ \A row \in locks' : row.call # p
       /\ \A p \in HouseCallers :
              (hc[p].pc = "mark" /\ hc'[p] # hc[p] /\ chat = "down")
              => /\ hBets'[hc[p].batch[hc[p].idx].id].status = "SETTLED"
                 /\ IF hc[p].idx = Len(hc[p].batch)
                       THEN hc'[p].pc = "idle"
                       ELSE hc'[p].pc = "own" /\ hc'[p].idx = hc[p].idx + 1]_vars

\* C21 witness: the messages about the round and about the first bet of the
\* batch threw; the round is SETTLED, and the call is at the second bet.
C21_Witness ==
    /\ Notice(<<"round", 1>>, FALSE) \in notices
    /\ Notice(<<"bet", 1>>, FALSE) \in notices
    /\ sRound.status = "SETTLED"
    /\ hBets[1].status = "SETTLED"
    /\ hc["h1"].pc = "own" /\ hc["h1"].idx = 2

-----------------------------------------------------------------------------
(* Claims about wager placement *)

\* C13: in every reachable state there is at most one wager per (round,
\* user), also when the same user's team selections overlap or repeat.
C13_OneWagerPerRoundUser == \A w1, w2 \in wWagers : (w1.round = w2.round /\ w1.user = w2.user) => w1 = w2

\* C13 witness: a team selection of a user is about to create the wager in a
\* round in which the user has got a wager since the selection looked for one.
C13_Witness == \E c \in TeamCalls : /\ tsel[c].pc = "commit"
                                    /\ tsel[c].round # 0
                                    /\ HasWager(wWagers, tsel[c].round, tsel[c].user)

\* C40 (as stated): a team selection that creates a pending wager while the
\* game and chat have an OPEN round creates no further round and puts the
\* wager into that round, also when another user's selection overlaps it; so
\* both users' wagers end up in the one OPEN round.
C40_OneOpenRound ==
    [][\A c \in TeamCalls :
          (/\ tsel[c].pc = "commit" /\ tsel'[c].pc = "idle"
           /\ wWagers' # wWagers
           /\ OpenRound(wRounds) # 0)
          => (/\ wRounds' = wRounds
              /\ \A w \in wWagers' \ wWagers : w.round = OpenRound(wRounds))]_vars

=============================================================================
